---- MODULE Spec2Model ----
(***************************************************************************)
(* A model of wtmaps-utils: the address map and its index                  *)
(* (src/wdwarf/src/address_translator.rs), the DIE dependency graph        *)
(* (src/wdwarf-cp/src/gc.rs) and the DWARF rewrite                         *)
(* (src/wdwarf-cp/src/convert.rs).                                         *)
(***************************************************************************)
EXTENDS Integers, Sequences, FiniteSets, TLC

VARIABLES
    ranges,      \* AddressMap.ranges: a sequence of [keypoints, last]
    index,       \* AddressMapIndexed.index: original address -> range indices
    indexed,     \* TRUE once AddressMapIndexed::from has run
    inOrder,     \* history: every insert so far had target >= the previous one
    lastKey,     \* history: the target of the latest insert (-1 before any)
    function_ranges, \* AddressMapIndexed.function_ranges: sorted <<begin, end>>
    q,           \* the latest query and its result
    filterZero,  \* IdentityAddressTranslator.0
    edges,       \* Dependencies.edges: offset -> set of offsets
    roots,       \* Dependencies.roots
    reach,       \* the latest result of get_reachable, the locals of a
                 \* call that is running, or NotRun
    tab,         \* the line rewrite's translator: translate_address as a table
    from_row,    \* from_line_program: the row engine's registers
    temp_line_sequence, \* from_line_program: the pending sequence
    program,     \* from_line_program: the output LineProgram
    lstatus,     \* from_line_program: "running", "ok" or the error returned
    lcount,      \* history: the number of instructions consumed
    dies,        \* the input .debug_info: DIEs in offset (pre-order) order
    out,         \* the result of the latest rewrite, DepsBuilt before it
                 \* in build_new_dwarf, or NotRun
    rnglist      \* from_rangelist: the raw range list read, its context, its result

mapVars == <<ranges, index, function_ranges, indexed, inOrder, lastKey>>
gcVars == <<edges, roots, reach>>

lineVars == <<tab, from_row, temp_line_sequence, program, lstatus, lcount>>

dieVars == <<dies, out>>

rngVars == <<rnglist>>

vars == <<mapVars, q, filterZero, gcVars, lineVars, dieVars, rngVars>>

\* What the actions of one component leave alone in the others.
mapFrame == <<filterZero, gcVars, lineVars, dieVars, rngVars>>
idFrame == <<mapVars, gcVars, lineVars, dieVars, rngVars>>
gcFrame == <<mapVars, q, filterZero, lineVars, dieVars, rngVars>>
lineFrame == <<mapVars, q, filterZero, gcVars, dieVars, rngVars>>
dieFrame == <<mapVars, q, filterZero, gcVars, lineVars, rngVars>>

----------------------------------------------------------------------------
(* Bounds of the address-map model. *)
MaxInserts == 3
MaxOrig == 2
MaxTarget == 2

OrigAddrs == 0..MaxOrig
TargetAddrs == 0..MaxTarget

NoQuery == [op |-> "none"]

\* No range list has been read: the unit has low_pc 0 and the list is empty.
NoRngList == [at |-> [kind |-> "identity", filter |-> FALSE], base_address |-> 0,
              raw |-> <<>>, run |-> FALSE]
EmptyMap == [k \in {} |-> <<>>]

SetMax(S) == CHOOSE x \in S : \A y \in S : y <= x
SetMin(S) == CHOOSE x \in S : \A y \in S : x <= y

----------------------------------------------------------------------------
(* AddressMap *)

start_range(rs, key, addr) ==
    Append(rs, [keypoints |-> <<<<addr, key>>>>, last |-> key])

\* The comparison of the wdwarf-cp copy: the range's last TARGET against the
\* new ORIGINAL address.
insert_cmp_last(rs, key, addr) ==
    IF Len(rs) = 0 THEN start_range(rs, key, addr)
    ELSE LET n == Len(rs)
             last_range == rs[n]
         IN IF last_range.last <= addr
            THEN [rs EXCEPT ![n] = [keypoints |-> Append(last_range.keypoints, <<addr, key>>),
                                    last |-> key]]
            ELSE start_range([rs EXCEPT ![n].last = key], key, addr)

\* a variant of insert that closes a range without touching its `last`
insert_keep_last(rs, key, addr) ==
    IF Len(rs) = 0 THEN start_range(rs, key, addr)
    ELSE LET n == Len(rs)
             last_range == rs[n]
             kps == last_range.keypoints
         IN IF kps[Len(kps)][1] <= addr
            THEN [rs EXCEPT ![n] = [keypoints |-> Append(kps, <<addr, key>>),
                                    last |-> key]]
            ELSE start_range(rs, key, addr)

insert(rs, key, addr) ==
    IF Len(rs) = 0 THEN start_range(rs, key, addr)
    ELSE LET n == Len(rs)
             last_range == rs[n]
             kps == last_range.keypoints
         IN IF kps[Len(kps)][1] <= addr
            THEN [rs EXCEPT ![n] = [keypoints |-> Append(kps, <<addr, key>>),
                                    last |-> key]]
            ELSE start_range([rs EXCEPT ![n].last = key], key, addr)

first_addr_of(range) == range.keypoints[1][1]
last_addr_of(range) == range.keypoints[Len(range.keypoints)][1]

----------------------------------------------------------------------------
(* AddressMapIndexed::generate_index *)

\* BTreeMap insert in enumeration order: a later range with the same first
\* address replaces the earlier one.
sorted_map(rs) ==
    LET firsts == {first_addr_of(rs[i]) : i \in 1..Len(rs)}
    IN [k \in firsts |-> SetMax({i \in 1..Len(rs) : first_addr_of(rs[i]) = k})]

\* result.insert(addr, active_ranges.remove(&addr)) for every key < first_addr
drain_result(active, result, first_addr) ==
    LET passed == {k \in DOMAIN active : k < first_addr}
    IN [k \in DOMAIN result \cup passed |->
            IF k \in passed THEN active[k] ELSE result[k]]

drain_active(active, first_addr) ==
    [k \in {x \in DOMAIN active : x >= first_addr} |-> active[k]]

\* active_ranges.range(..bound).last(), cloned, or an empty Vec
clone_before(active, bound) ==
    LET below == {k \in DOMAIN active : k < bound}
    IN IF below = {} THEN <<>> ELSE active[SetMax(below)]

map_insert(m, k, v) == [x \in DOMAIN m \cup {k} |-> IF x = k THEN v ELSE m[x]]

seed_first(active, first_addr) ==
    IF first_addr \in DOMAIN active THEN active
    ELSE map_insert(active, first_addr, clone_before(active, first_addr))

\* The source inserts the seed for last_addr under the key first_addr.
seed_last(active, first_addr, last_addr) ==
    IF last_addr \in DOMAIN active THEN active
    ELSE map_insert(active, first_addr, clone_before(active, last_addr))

push_index(active, first_addr, last_addr, idx) ==
    [k \in DOMAIN active |->
        IF first_addr <= k /\ k <= last_addr THEN Append(active[k], idx) ELSE active[k]]

sweep_active(active, rs, first_addr, idx) ==
    LET last_addr == last_addr_of(rs[idx])
        a1 == drain_active(active, first_addr)
        a2 == seed_first(a1, first_addr)
        a3 == seed_last(a2, first_addr, last_addr)
    IN push_index(a3, first_addr, last_addr, idx)

RECURSIVE sweep(_, _, _, _, _)
sweep(rs, sm, todo, active, result) ==
    IF todo = {} THEN drain_result(active, result, MaxOrig + MaxTarget + 1000000)
    ELSE LET first_addr == SetMin(todo)
         IN sweep(rs, sm, todo \ {first_addr},
                  sweep_active(active, rs, first_addr, sm[first_addr]),
                  drain_result(active, result, first_addr))

generate_index(rs) ==
    LET sm == sorted_map(rs)
    IN sweep(rs, sm, DOMAIN sm, EmptyMap, EmptyMap)

----------------------------------------------------------------------------
(* Function ranges *)

PairLess(a, b) == a[1] < b[1] \/ (a[1] = b[1] /\ a[2] < b[2])

\* function_ranges.sort(): the pairs in lexicographic order
RECURSIVE SortPairs(_)
SortPairs(s) ==
    IF Len(s) <= 1 THEN s
    ELSE LET m == CHOOSE i \in 1..Len(s) :
                     \A j \in 1..Len(s) : ~PairLess(s[j], s[i]) /\ (s[j] = s[i] => i <= j)
             rest == [k \in 1..(Len(s) - 1) |-> IF k < m THEN s[k] ELSE s[k + 1]]
         IN <<s[m]>> \o SortPairs(rest)

None == [some |-> FALSE]
Some(v) == [some |-> TRUE, val |-> v]

Constant(v) == [tag |-> "Constant", val |-> v]

\* to_addr_len: a target range <<start, end>> as (Address, length)
to_addr_len(range) == <<Constant(range[1]), range[2] - range[1]>>

\* The outcomes of lookup_function_range_by_target_address(addr)
lookup_function_range_by_target_address(frs, addr) ==
    LET hits == {i \in 1..Len(frs) : frs[i][1] = addr}
        i == Cardinality({j \in 1..Len(frs) : frs[j][1] < addr})
    IN IF hits # {} THEN {Some(frs[h]) : h \in hits}
       ELSE IF i > 0 /\ frs[i][1] <= addr /\ addr < frs[i][2] THEN {Some(frs[i])}
       ELSE {None}

----------------------------------------------------------------------------
(* Point lookup *)

\* The outcomes binary_search_by may produce: Ok(i) for any i holding the
\* address (the standard library leaves the choice open), else Err(i) with i
\* the insertion position.  Positions are 1-based here.
binary_search(kps, addr) ==
    LET hits == {i \in 1..Len(kps) : kps[i][1] = addr}
    IN IF hits # {}
       THEN {[ok |-> TRUE, i |-> i] : i \in hits}
       ELSE {[ok |-> FALSE,
              i |-> Cardinality({j \in 1..Len(kps) : kps[j][1] < addr}) + 1]}

\* LookupAddressIterator::next's match on the search position
point_target(range, pos) ==
    IF pos.ok THEN range.keypoints[pos.i][2]
    ELSE IF pos.i <= Len(range.keypoints) THEN range.keypoints[pos.i][2]
    ELSE range.last

point_targets(range, addr) ==
    {point_target(range, pos) : pos \in binary_search(range.keypoints, addr)}

\* self.index.range(..=addr).last()
index_at(idx, addr) ==
    LET keys == {k \in DOMAIN idx : k <= addr}
    IN IF keys = {} THEN [found |-> FALSE]
       ELSE [found |-> TRUE, key |-> SetMax(keys), ranges |-> idx[SetMax(keys)]]

\* Every sequence of targets the iterator may yield, one per listed range.
lookup_address(rs, idx, addr) ==
    LET e == index_at(idx, addr)
    IN IF ~e.found THEN {<<>>}
       ELSE {s \in [1..Len(e.ranges) -> TargetAddrs] :
                \A k \in 1..Len(e.ranges) : s[k] \in point_targets(rs[e.ranges[k]], addr)}

----------------------------------------------------------------------------
(* lookup_function_range *)

\* The match with the left neighbour's function range preferred to the
\* right one's.
function_range_at_left(range, pos, frs) ==
    LET kps == range.keypoints
        at(i) == lookup_function_range_by_target_address(frs, kps[i][2])
    IN IF pos.ok THEN at(pos.i)
       ELSE IF pos.i = 1 THEN at(pos.i)
       ELSE UNION {IF ~left.some THEN {None}
                   ELSE IF pos.i > Len(kps) THEN {left}
                   ELSE {IF right.some THEN left ELSE None : right \in at(pos.i)} :
                   left \in at(pos.i - 1)}

\* a variant of function_range_at that takes the right neighbour's function
\* range without looking at the left neighbour when a right neighbour exists
function_range_at_right(range, pos, frs) ==
    LET kps == range.keypoints
        at(i) == lookup_function_range_by_target_address(frs, kps[i][2])
    IN IF pos.ok THEN at(pos.i)
       ELSE IF pos.i <= Len(kps) THEN at(pos.i)
       ELSE at(pos.i - 1)

\* The outcomes of the match on one range's search position: Some(range)
\* when the loop returns, None when it goes on to the next range.
function_range_at(range, pos, frs) ==
    LET kps == range.keypoints
        at(i) == lookup_function_range_by_target_address(frs, kps[i][2])
    IN IF pos.ok THEN at(pos.i)
       ELSE IF pos.i = 1 THEN at(pos.i)
       ELSE UNION {IF ~left.some THEN {None}
                   ELSE IF pos.i > Len(kps) THEN {left}
                   ELSE at(pos.i) : left \in at(pos.i - 1)}

function_range_in(range, addr, frs) ==
    UNION {function_range_at(range, pos, frs) : pos \in binary_search(range.keypoints, addr)}

\* for range_index in ranges.unwrap().1 { ... }
RECURSIVE function_range_of_ranges(_, _, _, _)
function_range_of_ranges(rs, list, addr, frs) ==
    IF list = <<>> THEN {None}
    ELSE LET first == function_range_in(rs[Head(list)], addr, frs)
         IN {o \in first : o.some}
            \cup (IF None \in first
                  THEN function_range_of_ranges(rs, Tail(list), addr, frs)
                  ELSE {})

\* for addr in addrs { ...; if ranges.is_none() { break; } ... }
RECURSIVE lookup_function_range(_, _, _, _)
lookup_function_range(rs, idx, frs, addrs) ==
    IF addrs = <<>> THEN {None}
    ELSE LET e == index_at(idx, Head(addrs))
         IN IF ~e.found THEN {None}
            ELSE LET here == function_range_of_ranges(rs, e.ranges, Head(addrs), frs)
                 IN {o \in here : o.some}
                    \cup (IF None \in here
                          THEN lookup_function_range(rs, idx, frs, Tail(addrs))
                          ELSE {})

----------------------------------------------------------------------------
(* AddressTranslator: the identity and the transform variants *)

id_translate_address_always(fz, addr) ==
    IF addr = 0 THEN <<>> ELSE <<Constant(addr)>>

id_translate_address(fz, addr) ==
    IF addr = 0 /\ fz THEN <<>> ELSE <<Constant(addr)>>

id_translate_range(fz, start, len) ==
    IF start = 0 /\ fz THEN <<>> ELSE <<<<Constant(start), len>>>>

id_translate_function_range(fz, start, len) ==
    IF start = 0 /\ fz THEN None ELSE Some(<<Constant(start), len>>)

probe_addrs(start, len) ==
    IF len = 0 THEN <<start>> ELSE <<start, start + len - 1>>

\* TranformAddressTranslator::translate_function_range: its outcomes
tr_translate_function_range(rs, idx, frs, start, len) ==
    {IF o.some THEN Some(to_addr_len(o.val)) ELSE None :
        o \in lookup_function_range(rs, idx, frs, probe_addrs(start, len))}

----------------------------------------------------------------------------
(* Initial values of the line-program rewrite *)

NoTable == [a \in {} |-> <<>>]

\* read::LineRow::new: address 0, line 1
NewLineRow == [address |-> 0, line |-> 1]

\* TempLineSequence::new
NewTempLineSequence == [base_address |-> None, rows |-> <<>>]

\* write::LineProgram::new: no sequence yet, none open
NewLineProgram == [sequences |-> <<>>, in_sequence |-> FALSE]

----------------------------------------------------------------------------
(* Dependencies (gc.rs) *)

\* Bounds of the dependency-graph model: offsets 1..NumOffsets, and the
\* number of add_edge calls.
NumOffsets == 3
MaxEdges == 3

Offsets == 1..NumOffsets
NotRun == [run |-> FALSE]

\* The iteration orders of the hash sets: permutations of the offsets.
Orders == {o \in [1..NumOffsets -> Offsets] : \A i, j \in 1..NumOffsets : i # j => o[i] # o[j]}

\* The elements of S in the order ord visits them.
InOrder(S, ord) == SelectSeq(ord, LAMBDA x : x \in S)

add_edge(es, a, b) ==
    IF a \in DOMAIN es
    THEN [es EXCEPT ![a] = es[a] \cup {b}]
    ELSE [x \in DOMAIN es \cup {a} |-> IF x = a THEN {b} ELSE es[x]]

add_root(rts, root) == rts \cup {root}

\* self.edges.get(i), in iteration order; empty when there is no entry
deps_of(es, i, ord) == IF i \in DOMAIN es THEN InOrder(es[i], ord) ELSE <<>>

\* A scan that leaves the loop at the first dependency already reachable.
RECURSIVE scan_deps_break(_, _)
scan_deps_break(js, st) ==
    IF js = <<>> THEN st
    ELSE IF Head(js) \in st.reachable THEN st
    ELSE scan_deps_break(Tail(js),
                         [reachable |-> st.reachable \cup {Head(js)},
                          queue |-> Append(st.queue, Head(js))])

\* for j in deps { if reachable.contains(j) { continue; } insert; push }
RECURSIVE scan_deps(_, _)
scan_deps(js, st) ==
    IF js = <<>> THEN st
    ELSE IF Head(js) \in st.reachable THEN scan_deps(Tail(js), st)
    ELSE scan_deps(Tail(js),
                   [reachable |-> st.reachable \cup {Head(js)},
                    queue |-> Append(st.queue, Head(js))])

\* a seeding that scans the successors of the first root visited only
seed_queue_first(es, is, st, ord) ==
    IF is = <<>> THEN st ELSE scan_deps(deps_of(es, Head(is), ord), st)

\* for i in self.roots.iter() { ... }
RECURSIVE seed_queue(_, _, _, _)
seed_queue(es, is, st, ord) ==
    IF is = <<>> THEN st
    ELSE seed_queue(es, Tail(is), scan_deps(deps_of(es, Head(is), ord), st), ord)

\* while let Some(i) = queue.pop() { ... }
RECURSIVE drain_queue(_, _, _)
drain_queue(es, st, ord) ==
    IF st.queue = <<>> THEN st.reachable
    ELSE LET n == Len(st.queue)
             i == st.queue[n]
             popped == [st EXCEPT !.queue = SubSeq(st.queue, 1, n - 1)]
         IN drain_queue(es, scan_deps(deps_of(es, i, ord), popped), ord)

get_reachable(es, rts, ord) ==
    LET seeded == seed_queue(es, InOrder(rts, ord),
                             [reachable |-> rts, queue |-> <<>>], ord)
    IN drain_queue(es, seeded, ord)

NumEdges(es) ==
    LET RECURSIVE cnt(_)
        cnt(S) == IF S = {} THEN 0
                  ELSE LET a == CHOOSE x \in S : TRUE
                       IN Cardinality(es[a]) + cnt(S \ {a})
    IN cnt(DOMAIN es)

NoEdges == [x \in {} |-> {}]

GcInit ==
    /\ edges = NoEdges
    /\ roots = {}
    /\ reach = NotRun
    /\ ranges = <<>>
    /\ index = EmptyMap
    /\ function_ranges = <<>>
    /\ indexed = FALSE
    /\ inOrder = TRUE
    /\ lastKey = -1
    /\ q = NoQuery
    /\ filterZero = TRUE
    /\ tab = NoTable
    /\ from_row = NewLineRow
    /\ temp_line_sequence = NewTempLineSequence
    /\ program = NewLineProgram
    /\ lstatus = "running"
    /\ lcount = 0
    /\ dies = <<>>
    /\ out = NotRun
    /\ rnglist = NoRngList

AddEdge(a, b) ==
    /\ NumEdges(edges) < MaxEdges
    /\ edges' = add_edge(edges, a, b)
    /\ reach' = NotRun
    /\ UNCHANGED <<roots, gcFrame>>

AddRoot(r) ==
    /\ roots' = add_root(roots, r)
    /\ reach' = NotRun
    /\ UNCHANGED <<edges, gcFrame>>

GetReachable(ord) ==
    /\ reach' = [run |-> TRUE, set |-> get_reachable(edges, roots, ord)]
    /\ UNCHANGED <<edges, roots, gcFrame>>

GcNext ==
    \/ \E a, b \in Offsets : AddEdge(a, b)
    \/ \E r \in Offsets : AddRoot(r)
    \/ \E ord \in Orders : GetReachable(ord)

----------------------------------------------------------------------------
(* Line-program rewrite (convert.rs, from_line_program) *)

\* The bound of the line-program model: the length of the instruction
\* stream.
MaxInstr == 4

\* The instruction operands: the addresses SetAddress sets and the address
\* advances of the special opcodes.
SetAddressValues == {0, 1, 2}
Advances == {0, 1}

\* The targets a translation may yield.
LineTargets == {0, 1, 2}

\* The translations one original address may have: none, one, or two in
\* either order.
Translations ==
    UNION {[1..n -> LineTargets] : n \in {0, 1, 2}}

\* AddressTranslator::translate_address of the table translator
tab_translate_address(t, addr) == <<>> \o [i \in 1..Len(t[addr]) |-> Constant(t[addr][i])]

\* Iterator::min_by(compare_addresses): the first smallest element
min_by_address(addresses) ==
    IF addresses = <<>> THEN None
    ELSE LET m == CHOOSE i \in 1..Len(addresses) :
                     /\ \A j \in 1..Len(addresses) : addresses[i].val <= addresses[j].val
                     /\ \A j \in 1..(i - 1) : addresses[j].val > addresses[i].val
         IN Some(addresses[m])

\* AddressTranslator::translate_base_address (trait default)
translate_base_address(t, addr) == min_by_address(tab_translate_address(t, addr))

\* calc_address_offset on two Constant addresses
calc_address_offset(addr1, addr2) == addr2.val - addr1.val

\* AddressTranslator::translate_offset (trait default)
translate_offset(t, base, offset) ==
    LET translated_base == translate_base_address(t, base)
    IN IF ~translated_base.some THEN <<>>
       ELSE LET addresses == tab_translate_address(t, base + offset)
                kept == SelectSeq(addresses, LAMBDA a : ~(translated_base.val.val > a.val))
            IN [i \in 1..Len(kept) |-> calc_address_offset(translated_base.val, kept[i])]

\* TempLineSequence::translate_base_address
temp_translate_base_address(t, seq) ==
    IF ~seq.base_address.some THEN None
    ELSE translate_base_address(t, seq.base_address.val)

\* The (offset, row) pairs in the order they are collected.
RECURSIVE collect_rows(_, _, _)
collect_rows(t, base, rows) ==
    IF rows = <<>> THEN <<>>
    ELSE LET offs == translate_offset(t, base, Head(rows).address_offset)
         IN [i \in 1..Len(offs) |-> [address_offset |-> offs[i], line |-> Head(rows).line]]
            \o collect_rows(t, base, Tail(rows))

\* The collected pairs left in collection order.
unsorted(rows) == rows

\* translated_rows.sort_by(|(a, _), (b, _)| a.cmp(b)): a stable sort
RECURSIVE sort_by_offset(_)
sort_by_offset(rows) ==
    IF Len(rows) <= 1 THEN rows
    ELSE LET m == CHOOSE i \in 1..Len(rows) :
                     /\ \A j \in 1..Len(rows) : rows[i].address_offset <= rows[j].address_offset
                     /\ \A j \in 1..(i - 1) : rows[j].address_offset > rows[i].address_offset
             rest == [k \in 1..(Len(rows) - 1) |-> IF k < m THEN rows[k] ELSE rows[k + 1]]
         IN <<rows[m]>> \o sort_by_offset(rest)

\* a variant of emit_sequence that keeps a base translated to Constant(0)
emit_sequence_at_zero(t, prog, seq, end_address) ==
    LET translate_address == temp_translate_base_address(t, seq)
    IN IF ~translate_address.some THEN prog
       ELSE [prog EXCEPT !.sequences =
                Append(@, [base |-> translate_address.val,
                           rows |-> sort_by_offset(collect_rows(t, seq.base_address.val, seq.rows)),
                           end |-> end_address])]

\* The end_sequence branch: the output program after the pending sequence
\* has been translated (or dropped).
emit_sequence(t, prog, seq, end_address) ==
    LET translated == temp_translate_base_address(t, seq)
        translate_address == IF translated = Some(Constant(0)) THEN None ELSE translated
    IN IF ~translate_address.some THEN prog
       ELSE [prog EXCEPT !.sequences =
                Append(@, [base |-> translate_address.val,
                           rows |-> sort_by_offset(collect_rows(t, seq.base_address.val, seq.rows)),
                           end |-> end_address])]

\* The original addresses the end_sequence branch asks the translator about.
queried(seq) ==
    IF ~seq.base_address.some THEN {}
    ELSE {seq.base_address.val}
         \cup {seq.base_address.val + seq.rows[i].address_offset : i \in 1..Len(seq.rows)}

LineInit ==
    /\ tab = NoTable
    /\ from_row = NewLineRow
    /\ temp_line_sequence = NewTempLineSequence
    /\ program = NewLineProgram
    /\ lstatus = "running"
    /\ lcount = 0
    /\ dies = <<>>
    /\ out = NotRun
    /\ rnglist = NoRngList
    /\ ranges = <<>>
    /\ index = EmptyMap
    /\ function_ranges = <<>>
    /\ indexed = FALSE
    /\ inOrder = TRUE
    /\ lastKey = -1
    /\ q = NoQuery
    /\ filterZero = TRUE
    /\ edges = NoEdges
    /\ roots = {}
    /\ reach = NotRun

Consuming == lstatus = "running" /\ lcount < MaxInstr

\* read::LineInstruction::SetAddress(val)
SetAddress(val) ==
    /\ Consuming
    /\ lcount' = lcount + 1
    /\ IF program.in_sequence
       THEN /\ lstatus' = "UnsupportedLineInstruction"
            /\ UNCHANGED <<temp_line_sequence, from_row>>
       ELSE /\ temp_line_sequence' = [temp_line_sequence EXCEPT !.base_address = Some(val)]
            /\ from_row' = [from_row EXCEPT !.address = val]
            /\ UNCHANGED lstatus
    /\ UNCHANGED <<tab, program, lineFrame>>

\* read::LineInstruction::DefineFile
DefineFile ==
    /\ Consuming
    /\ lcount' = lcount + 1
    /\ lstatus' = "UnsupportedLineInstruction"
    /\ UNCHANGED <<tab, from_row, temp_line_sequence, program, lineFrame>>

\* A special opcode: advances the address by adv and the line by one and
\* produces a row, which is appended to the pending sequence.
Special(adv) ==
    /\ Consuming
    /\ lcount' = lcount + 1
    /\ LET executed == [address |-> from_row.address + adv, line |-> from_row.line + 1]
       IN /\ temp_line_sequence' =
                [temp_line_sequence EXCEPT !.rows =
                    Append(@, [address_offset |-> executed.address, line |-> executed.line])]
          /\ from_row' = executed
    /\ UNCHANGED <<tab, program, lstatus, lineFrame>>

\* DW_LNE_end_sequence: the pending sequence is translated and emitted, the
\* buffer cleared and the row engine reset.
EndSequence ==
    /\ Consuming
    /\ lcount' = lcount + 1
    /\ \E ext \in [queried(temp_line_sequence) \ DOMAIN tab -> Translations] :
          /\ tab' = [a \in DOMAIN tab \cup DOMAIN ext |->
                        IF a \in DOMAIN tab THEN tab[a] ELSE ext[a]]
          /\ program' = emit_sequence(tab', program, temp_line_sequence, from_row.address)
    /\ temp_line_sequence' = NewTempLineSequence
    /\ from_row' = NewLineRow
    /\ UNCHANGED <<lstatus, lineFrame>>

\* The instruction stream ends: Ok((program, files))
LineFinish ==
    /\ lstatus = "running"
    /\ lstatus' = "ok"
    /\ UNCHANGED <<tab, from_row, temp_line_sequence, program, lcount, lineFrame>>

LineNext ==
    \/ \E val \in SetAddressValues : SetAddress(val)
    \/ DefineFile
    \/ \E adv \in Advances : Special(adv)
    \/ EndSequence
    \/ LineFinish

LineSpec == LineInit /\ [][LineNext]_vars

----------------------------------------------------------------------------
(* The address-map state machine *)

MapInit ==
    /\ ranges = <<>>
    /\ index = EmptyMap
    /\ function_ranges = <<>>
    /\ indexed = FALSE
    /\ inOrder = TRUE
    /\ lastKey = -1
    /\ q = NoQuery
    /\ filterZero = TRUE
    /\ edges = NoEdges
    /\ roots = {}
    /\ reach = NotRun
    /\ tab = NoTable
    /\ from_row = NewLineRow
    /\ temp_line_sequence = NewTempLineSequence
    /\ program = NewLineProgram
    /\ lstatus = "running"
    /\ lcount = 0
    /\ dies = <<>>
    /\ out = NotRun
    /\ rnglist = NoRngList

NumKeypoints(rs) ==
    LET RECURSIVE cnt(_)
        cnt(i) == IF i = 0 THEN 0 ELSE Len(rs[i].keypoints) + cnt(i - 1)
    IN cnt(Len(rs))

Insert(key, addr) ==
    /\ ~indexed
    /\ NumKeypoints(ranges) < MaxInserts
    /\ ranges' = insert(ranges, key, addr)
    /\ inOrder' = (inOrder /\ lastKey <= key)
    /\ lastKey' = key
    /\ UNCHANGED <<index, function_ranges, indexed, q, mapFrame>>

\* AddressMapIndexed::from
BuildIndex(frs) ==
    /\ ~indexed
    /\ function_ranges' = SortPairs(frs)
    /\ index' = generate_index(ranges)
    /\ indexed' = TRUE
    /\ UNCHANGED <<ranges, inOrder, lastKey, q, mapFrame>>

LookupAddress(addr) ==
    /\ indexed
    /\ \E res \in lookup_address(ranges, index, addr) :
          q' = [op |-> "lookup_address", addr |-> addr, res |-> res]
    /\ UNCHANGED <<mapVars, mapFrame>>

MapNext ==
    \/ \E key \in TargetAddrs, addr \in OrigAddrs : Insert(key, addr)
    \/ BuildIndex(<<>>)
    \/ \E addr \in OrigAddrs : LookupAddress(addr)

MapSpec == MapInit /\ [][MapNext]_vars

----------------------------------------------------------------------------
(* The identity translator's state machine *)

\* Bounds of the identity-translator queries.
MaxIdAddr == 4
MaxIdLen == 4

IdInit ==
    /\ filterZero \in BOOLEAN
    /\ q = NoQuery
    /\ ranges = <<>>
    /\ index = EmptyMap
    /\ function_ranges = <<>>
    /\ indexed = FALSE
    /\ inOrder = TRUE
    /\ lastKey = -1
    /\ edges = NoEdges
    /\ roots = {}
    /\ reach = NotRun
    /\ tab = NoTable
    /\ from_row = NewLineRow
    /\ temp_line_sequence = NewTempLineSequence
    /\ program = NewLineProgram
    /\ lstatus = "running"
    /\ lcount = 0
    /\ dies = <<>>
    /\ out = NotRun
    /\ rnglist = NoRngList

IdTranslateAddress(addr) ==
    /\ q' = [op |-> "translate_address", addr |-> addr,
             res |-> id_translate_address(filterZero, addr)]
    /\ UNCHANGED <<filterZero, idFrame>>

IdTranslateRange(start, len) ==
    /\ q' = [op |-> "translate_range", addr |-> start, len |-> len,
             res |-> id_translate_range(filterZero, start, len)]
    /\ UNCHANGED <<filterZero, idFrame>>

IdTranslateFunctionRange(start, len) ==
    /\ q' = [op |-> "translate_function_range", addr |-> start, len |-> len,
             res |-> id_translate_function_range(filterZero, start, len)]
    /\ UNCHANGED <<filterZero, idFrame>>

IdNext ==
    \/ \E addr \in 0..MaxIdAddr : IdTranslateAddress(addr)
    \/ \E start \in 0..MaxIdAddr, len \in 0..MaxIdLen : IdTranslateRange(start, len)
    \/ \E start \in 0..MaxIdAddr, len \in 0..MaxIdLen : IdTranslateFunctionRange(start, len)

IdSpec == IdInit /\ [][IdNext]_vars

----------------------------------------------------------------------------
(* The source-map scenario: a fixed insert sequence and function ranges,   *)
(* queried through the transform translator                                *)

\* <<target, original>> in insertion order
S6Inserts == <<<<256, 16>>, <<288, 20>>, <<512, 64>>>>
S6FunctionRanges == <<<<256, 320>>, <<512, 576>>>>
S6Starts == 0..80
S6Lens == {0, 1, 5}

S6Insert ==
    /\ ~indexed
    /\ NumKeypoints(ranges) < Len(S6Inserts)
    /\ LET kp == S6Inserts[NumKeypoints(ranges) + 1]
       IN /\ ranges' = insert(ranges, kp[1], kp[2])
          /\ inOrder' = (inOrder /\ lastKey <= kp[1])
          /\ lastKey' = kp[1]
    /\ UNCHANGED <<index, function_ranges, indexed, q, mapFrame>>

S6BuildIndex ==
    /\ NumKeypoints(ranges) = Len(S6Inserts)
    /\ BuildIndex(S6FunctionRanges)

TranslateFunctionRange(start, len) ==
    /\ indexed
    /\ \E res \in tr_translate_function_range(ranges, index, function_ranges, start, len) :
          q' = [op |-> "translate_function_range", addr |-> start, len |-> len, res |-> res]
    /\ UNCHANGED <<mapVars, mapFrame>>

S6Next ==
    \/ S6Insert
    \/ S6BuildIndex
    \/ \E start \in S6Starts, len \in S6Lens : TranslateFunctionRange(start, len)

S6Spec == MapInit /\ [][S6Next]_vars

----------------------------------------------------------------------------
(* Properties of the address map *)

Span(range) == first_addr_of(range)..last_addr_of(range)

KeypointsOf(range) == {range.keypoints[i] : i \in 1..Len(range.keypoints)}

IsKeypointOriginal(rs, o) ==
    \E r \in 1..Len(rs) : \E kp \in KeypointsOf(rs[r]) : kp[1] = o

NonDecreasing(s) == \A i \in 1..(Len(s) - 1) : s[i] <= s[i + 1]

Originals(range) == [i \in 1..Len(range.keypoints) |-> range.keypoints[i][1]]
Targets(range) == [i \in 1..Len(range.keypoints) |-> range.keypoints[i][2]]

\* C1: for an original address o that is the original of some keypoint,
\* lookup_address(o) yields at least one target t such that (o, t) is a
\* keypoint of a range whose original span contains o.
C1_LookupFindsKeypoint ==
    (q.op = "lookup_address" /\ IsKeypointOriginal(ranges, q.addr)) =>
        \E k \in 1..Len(q.res) : \E r \in 1..Len(ranges) :
            /\ q.addr \in Span(ranges[r])
            /\ <<q.addr, q.res[k]>> \in KeypointsOf(ranges[r])

\* C2: after inserts issued in non-decreasing target order, no range is
\* empty and in every range both the original and the target addresses of
\* the keypoints are non-decreasing.
C2_RangesMonotonic ==
    inOrder =>
        \A r \in 1..Len(ranges) :
            /\ Len(ranges[r].keypoints) > 0
            /\ NonDecreasing(Originals(ranges[r]))
            /\ NonDecreasing(Targets(ranges[r]))

C2_Witness ==
    /\ inOrder
    /\ Len(ranges) = 2
    /\ Len(ranges[1].keypoints) = 2
    /\ ranges[1].keypoints[1][1] < ranges[1].keypoints[2][1]
    /\ ranges[1].keypoints[1][2] < ranges[1].keypoints[2][2]

----------------------------------------------------------------------------
(* Properties of the dependency graph *)

GcSpec == GcInit /\ [][GcNext]_vars

EdgePairs(es) == {p \in Offsets \X Offsets : p[1] \in DOMAIN es /\ p[2] \in es[p[1]]}

\* x is reachable: a path of forward edges leads from a root to x (a root
\* by the path of length zero).
HasPath(es, rts, x) ==
    \E n \in 1..NumOffsets : \E p \in [1..n -> Offsets] :
        /\ p[1] \in rts
        /\ p[n] = x
        /\ \A i \in 1..(n - 1) : <<p[i], p[i + 1]>> \in EdgePairs(es)

\* C3: get_reachable() returns exactly the offsets reachable from the roots
\* by zero or more forward edges.
C3_ReachableExact ==
    reach.run => \A x \in Offsets : (x \in reach.set) <=> HasPath(edges, roots, x)

\* an offset that is no root is in the result, and an offset with an edge
\* into the result is not
C3_Witness ==
    /\ reach.run
    /\ \E x \in reach.set : x \notin roots
    /\ \E y \in Offsets : y \notin reach.set /\ \E z \in reach.set : <<y, z>> \in EdgePairs(edges)

----------------------------------------------------------------------------
(* Properties of the translators *)

\* C8: the identity translator with filter-zero = true translates 0 to
\* nothing and every other o to [Constant(o)]; with filter-zero = false it
\* translates every o, 0 included, to [Constant(o)].
C8_IdentityTranslateAddress ==
    q.op = "translate_address" =>
        IF filterZero /\ q.addr = 0 THEN q.res = <<>>
        ELSE q.res = <<Constant(q.addr)>>

C8_Witness ==
    /\ q.op = "translate_address"
    /\ ~filterZero
    /\ q.addr = 0
    /\ q.res = <<Constant(0)>>

IsQuery(start, len) ==
    q.op = "translate_function_range" /\ q.addr = start /\ q.len = len

\* C9 as stated: in the scenario translate_function_range(0x10, 5) is
\* Some((Constant(0x100), 0x40)), translate_function_range(0x40, 0) is
\* Some((Constant(0x200), 0x40)) and translate_function_range(0x30, 1) is None.
C9_ScenarioAsStated ==
    /\ IsQuery(16, 5) => q.res = Some(<<Constant(256), 64>>)
    /\ IsQuery(64, 0) => q.res = Some(<<Constant(512), 64>>)
    /\ IsQuery(48, 1) => q.res = None

\* C9 amended: as stated, but translate_function_range(0x30, 1) is
\* Some((Constant(0x200), 0x40)): 0x30 lies between the keypoints 0x14 and
\* 0x40, both neighbours' targets lie in function ranges, and the right one
\* is preferred.
C9_Scenario ==
    /\ IsQuery(16, 5) => q.res = Some(<<Constant(256), 64>>)
    /\ IsQuery(64, 0) => q.res = Some(<<Constant(512), 64>>)
    /\ IsQuery(48, 1) => q.res = Some(<<Constant(512), 64>>)

C9_Witness == IsQuery(48, 1) /\ q.res.some

----------------------------------------------------------------------------
(* Properties of the line-program rewrite *)

\* C5: within every emitted sequence the address offsets of the rows are
\* non-decreasing in emission order, whatever the translator returned.
C5_RowsNonDecreasing ==
    \A k \in 1..Len(program.sequences) :
        \A i \in 1..(Len(program.sequences[k].rows) - 1) :
            program.sequences[k].rows[i].address_offset
                <= program.sequences[k].rows[i + 1].address_offset

\* a sequence whose rows were emitted in another order than the input rows'
C5_Witness ==
    \E k \in 1..Len(program.sequences) :
        \E i \in 1..(Len(program.sequences[k].rows) - 1) :
            /\ program.sequences[k].rows[i].address_offset
                  < program.sequences[k].rows[i + 1].address_offset
            /\ program.sequences[k].rows[i].line > program.sequences[k].rows[i + 1].line

----------------------------------------------------------------------------
(* The input .debug_info                                                    *)
(* A DIE is [depth, tag, attrs]; its offset is its position in dies, which  *)
(* is the pre-order of the entries tree. Depth 0 is a unit's root entry.    *)

MaxDies == 4

Attr(name, value) == [name |-> name, value |-> value]

\* read::AttributeValue, the forms the inputs use
Addr(v) == [form |-> "Addr", val |-> v]
Data1(v) == [form |-> "Data1", val |-> v]
UnitRef(o) == [form |-> "UnitRef", val |-> o]
DebugInfoRef(o) == [form |-> "DebugInfoRef", val |-> o]
DebugAddrBase(v) == [form |-> "DebugAddrBase", val |-> v]
RangeListsRef(v) == [form |-> "RangeListsRef", val |-> v]

\* the raw range list every DW_AT_ranges of the inputs points at
RawRanges == <<[kind |-> "StartLength", begin |-> 1, length |-> 1]>>

LowPcs == {0, 1}
ChildTags == {"DW_TAG_subprogram", "DW_TAG_variable", "DW_TAG_base_type"}

\* the attributes a unit's root entry bears
RootAttrs == <<Attr("DW_AT_addr_base", DebugAddrBase(0))>>

\* the attribute lists a subprogram may bear
SubprogramAttrs ==
    {lp \o rg :
        lp \in {<<>>} \cup {<<Attr("DW_AT_low_pc", Addr(a))>> : a \in LowPcs},
        rg \in {<<>>, <<Attr("DW_AT_ranges", RangeListsRef(0))>>}}

\* the attributes a base type bears
BaseTypeAttrs == <<Attr("DW_AT_byte_size", Data1(1))>>

Die(depth, tag, attrs) == [depth |-> depth, tag |-> tag, attrs |-> attrs]

\* the entries tree: the parent of entry i (0 for a unit's root)
parent_of(ds, i) ==
    IF ds[i].depth = 0 THEN 0
    ELSE SetMax({j \in 1..(i - 1) : ds[j].depth = ds[i].depth - 1})

\* EntriesTreeNode::children, in offset order
children(ds, i) ==
    SelectSeq([j \in 1..Len(ds) |-> j], LAMBDA j : j > i /\ parent_of(ds, j) = i)

\* the offset of the unit root above entry i
unit_of(ds, i) == SetMax({j \in 1..i : ds[j].depth = 0})

\* the offsets of the unit roots, in section order (dwarf.units())
units_of(ds) == SelectSeq([j \in 1..Len(ds) |-> j], LAMBDA j : ds[j].depth = 0)

\* the sibling before a new entry of the given depth appended to ds, or 0
prev_sibling(ds, depth) ==
    LET same == {j \in 1..Len(ds) :
                    /\ ds[j].depth = depth
                    /\ \A k \in (j + 1)..Len(ds) : ds[k].depth >= depth}
    IN IF depth = 0 \/ same = {} THEN 0 ELSE SetMax(same)

\* a reference from an entry of unit u to the entry at offset t
RefTo(ds, u, t) == IF unit_of(ds, t) = u THEN UnitRef(t) ELSE DebugInfoRef(t)

\* the entries a DW_AT_type may point at: the entries below a unit root
Referable(ds) == {t \in 1..Len(ds) : ds[t].depth > 0}

\* the entries that extend ds at the given depth
NewDies(ds, depth) ==
    IF depth = 0 THEN {Die(0, "DW_TAG_compile_unit", RootAttrs)}
    ELSE LET u == unit_of(ds, Len(ds))
         IN {Die(depth, "DW_TAG_subprogram", a) : a \in SubprogramAttrs}
            \cup {Die(depth, "DW_TAG_base_type", BaseTypeAttrs)}
            \cup {Die(depth, "DW_TAG_variable", <<>>)}
            \cup {Die(depth, "DW_TAG_variable", <<Attr("DW_AT_type", RefTo(ds, u, t))>>) :
                      t \in Referable(ds)}

\* ds, or ds with a DW_AT_sibling on the subprogram that is the previous
\* sibling of the entry about to be appended at the given depth
WithSibling(ds, depth) ==
    LET p == prev_sibling(ds, depth)
        i == Len(ds) + 1
    IN IF p = 0 \/ ds[p].tag # "DW_TAG_subprogram" THEN {ds}
       ELSE {ds, [ds EXCEPT ![p].attrs = Append(@, Attr("DW_AT_sibling", UnitRef(i)))]}

\* ds, or ds with a DW_AT_type on an earlier variable pointing forward at the
\* entry about to be appended at the given depth
WithForwardRef(ds, depth) ==
    LET i == Len(ds) + 1
        u == unit_of(ds, Len(ds))
    IN IF depth = 0 THEN {ds}
       ELSE {ds} \cup
            {[ds EXCEPT ![j].attrs =
                  <<Attr("DW_AT_type", IF unit_of(ds, j) = u THEN UnitRef(i)
                                        ELSE DebugInfoRef(i))>>] :
                j \in {j \in 1..Len(ds) :
                          ds[j].tag = "DW_TAG_variable" /\ ds[j].attrs = <<>>}}

\* the inputs that extend ds by one entry
Extend(ds) ==
    LET depths == IF ds = <<>> THEN {0} ELSE 0..(ds[Len(ds)].depth + 1)
    IN UNION {UNION {UNION {{Append(fs, d) : d \in NewDies(ds, depth)} :
                               fs \in WithForwardRef(ss, depth)} :
                        ss \in WithSibling(ds, depth)} :
                 depth \in depths}

\* UnitRef stays inside its unit, DebugInfoRef goes to another unit, and both
\* point at an entry of the input
RefsWellFormed(ds) ==
    \A i \in 1..Len(ds) : \A k \in 1..Len(ds[i].attrs) :
        LET v == ds[i].attrs[k].value
        IN /\ v.form \in {"UnitRef", "DebugInfoRef"} => v.val \in 1..Len(ds)
           /\ v.form = "UnitRef" => unit_of(ds, v.val) = unit_of(ds, i)
           /\ v.form = "DebugInfoRef" => unit_of(ds, v.val) # unit_of(ds, i)

----------------------------------------------------------------------------
(* build_dependencies                                                       *)

NewDependencies == [edges |-> NoEdges, roots |-> {}]

\* DebuggingInformationEntry::attr_value: the first attribute of that name
attr_value(die, name) ==
    LET at == {k \in 1..Len(die.attrs) : die.attrs[k].name = name}
    IN IF at = {} THEN None ELSE Some(die.attrs[SetMin(at)].value)

\* a tag test under which no entry is a structural dependent of its parent
has_no_back_edge(die) == FALSE

has_die_back_edge(die) ==
    die.tag \in {"DW_TAG_variable", "DW_TAG_constant", "DW_TAG_inlined_subroutine",
                 "DW_TAG_lexical_block", "DW_TAG_label", "DW_TAG_with_stmt",
                 "DW_TAG_try_block", "DW_TAG_catch_block",
                 "DW_TAG_template_type_parameter", "DW_TAG_member",
                 "DW_TAG_formal_parameter"}

has_valid_code_range(die, fz) ==
    IF die.tag # "DW_TAG_subprogram" THEN FALSE
    ELSE LET low_pc == attr_value(die, "DW_AT_low_pc")
         IN IF low_pc.some /\ low_pc.val.form = "Addr"
            THEN Len(id_translate_address(fz, low_pc.val.val)) > 0
            ELSE attr_value(die, "DW_AT_ranges").some

\* a variant of build_attr_dependencies that adds no edge for a reference
build_attr_no_dependencies(attr, offset, deps) == deps

build_attr_dependencies(attr, offset, deps) ==
    IF attr.value.form \in {"UnitRef", "DebugInfoRef"}
    THEN [deps EXCEPT !.edges = add_edge(@, offset, attr.value.val)]
    ELSE deps

RECURSIVE build_attrs_dependencies(_, _, _)
build_attrs_dependencies(attrs, offset, deps) ==
    IF attrs = <<>> THEN deps
    ELSE build_attrs_dependencies(Tail(attrs), offset,
                                  build_attr_dependencies(Head(attrs), offset, deps))

RECURSIVE build_die_dependencies(_, _, _, _)
RECURSIVE build_children_dependencies(_, _, _, _, _)

build_die_dependencies(ds, fz, offset, deps) ==
    build_children_dependencies(ds, fz, offset, children(ds, offset),
        build_attrs_dependencies(ds[offset].attrs, offset, deps))

\* a variant of build_children_dependencies without the edge from a child
\* to its parent
build_children_no_parent_edge(ds, fz, offset, cs, deps) ==
    IF cs = <<>> THEN deps
    ELSE LET child_offset == Head(cs)
             d2 == IF has_die_back_edge(ds[child_offset])
                   THEN [deps EXCEPT !.edges = add_edge(@, offset, child_offset)]
                   ELSE deps
             d3 == IF has_valid_code_range(ds[child_offset], fz)
                   THEN [d2 EXCEPT !.roots = add_root(@, child_offset)]
                   ELSE d2
         IN build_children_dependencies(ds, fz, offset, Tail(cs),
                build_die_dependencies(ds, fz, child_offset, d3))

\* while let Some(child) = children.next()? { ... }
build_children_dependencies(ds, fz, offset, cs, deps) ==
    IF cs = <<>> THEN deps
    ELSE LET child_offset == Head(cs)
             d1 == [deps EXCEPT !.edges = add_edge(@, child_offset, offset)]
             d2 == IF has_die_back_edge(ds[child_offset])
                   THEN [d1 EXCEPT !.edges = add_edge(@, offset, child_offset)]
                   ELSE d1
             d3 == IF has_valid_code_range(ds[child_offset], fz)
                   THEN [d2 EXCEPT !.roots = add_root(@, child_offset)]
                   ELSE d2
         IN build_children_dependencies(ds, fz, offset, Tail(cs),
                build_die_dependencies(ds, fz, child_offset, d3))

build_unit_dependencies(ds, fz, root, deps) == build_die_dependencies(ds, fz, root, deps)

RECURSIVE build_units_dependencies(_, _, _, _)
build_units_dependencies(ds, fz, us, deps) ==
    IF us = <<>> THEN deps
    ELSE build_units_dependencies(ds, fz, Tail(us),
                                  build_unit_dependencies(ds, fz, Head(us), deps))

build_dependencies(ds, fz) == build_units_dependencies(ds, fz, units_of(ds), NewDependencies)

----------------------------------------------------------------------------
(* from_unit_table: the rewrite of the units and their entries             *)

\* write::AttributeValue, the forms the rewrite produces
Address(a) == [form |-> "Address", val |-> a]
UnitSectionRef(o) == [form |-> "UnitSectionRef", val |-> o]
ThisUnitEntryRef(id) == [form |-> "ThisUnitEntryRef", val |-> id]
AnyUnitEntryRef(id) == [form |-> "AnyUnitEntryRef", val |-> id]
RangeListRef(id) == [form |-> "RangeListRef", val |-> id]

Ok(v) == [ok |-> TRUE, val |-> v]
Err(e) == [ok |-> FALSE, err |-> e]

NewEntry(parent, tag) ==
    [parent |-> parent, tag |-> tag, sibling |-> FALSE, attrs |-> <<>>, children |-> <<>>]

\* Unit::new: a unit holding its root entry, whose id is 1
NewUnit == [entries |-> <<NewEntry(0, "DW_TAG_compile_unit")>>, ranges |-> <<>>]

\* Unit::add: a new entry, appended to its parent's children
unit_add(unit, parent, tag) ==
    [unit EXCEPT !.entries =
        Append([@ EXCEPT ![parent].children = Append(@, Len(unit.entries) + 1)],
               NewEntry(parent, tag))]

\* DebuggingInformationEntry::set: replace the attribute of that name or add it
entry_set(attrs, name, value) ==
    IF \E k \in 1..Len(attrs) : attrs[k].name = name
    THEN [k \in 1..Len(attrs) |->
             IF attrs[k].name = name THEN Attr(name, value) ELSE attrs[k]]
    ELSE Append(attrs, Attr(name, value))

\* RangeListTable::add: the id of the list, added when it is new
ranges_add(table, list) ==
    IF \E k \in 1..Len(table) : table[k] = list
    THEN [table |-> table, id |-> CHOOSE k \in 1..Len(table) : table[k] = list]
    ELSE [table |-> Append(table, list), id |-> Len(table) + 1]

\* the (start, len) pairs of the raw entries (the forms without a base address)
raw_ranges(raw) ==
    [k \in 1..Len(raw) |->
        IF raw[k].kind = "StartEnd" THEN <<raw[k].begin, raw[k].end - raw[k].begin>>
        ELSE <<raw[k].begin, raw[k].length>>]

RECURSIVE translate_ranges(_, _)
translate_ranges(fz, rs) ==
    IF rs = <<>> THEN <<>>
    ELSE LET translated == id_translate_range(fz, Head(rs)[1], Head(rs)[2])
         IN [k \in 1..Len(translated) |->
                [begin |-> translated[k][1], length |-> translated[k][2]]]
            \o translate_ranges(fz, Tail(rs))

from_rangelist(fz, raw) == translate_ranges(fz, raw_ranges(raw))

\* AddressTranslator::translate_base_address of the identity translator
id_translate_base_address(fz, addr) == min_by_address(id_translate_address(fz, addr))

\* from_attr_value: the unit after the conversion and Some(value) or None
from_attr_value(fz, unit, from) ==
    CASE from.form = "Addr" ->
           LET val == id_translate_base_address(fz, from.val)
           IN [unit |-> unit,
               to |-> IF val.some THEN Some(Address(val.val)) ELSE None]
      [] from.form = "Data1" -> [unit |-> unit, to |-> Some(Data1(from.val))]
      [] from.form = "DebugAddrBase" -> [unit |-> unit, to |-> None]
      [] from.form \in {"UnitRef", "DebugInfoRef"} ->
           [unit |-> unit, to |-> Some(UnitSectionRef(from.val))]
      [] from.form = "RangeListsRef" ->
           LET added == ranges_add(unit.ranges, from_rangelist(fz, RawRanges))
           IN [unit |-> [unit EXCEPT !.ranges = added.table],
               to |-> Some(RangeListRef(added.id))]

from_entry_attr(fz, from, unit, entry_id) ==
    LET r == from_attr_value(fz, unit, from.value)
    IN IF r.to.some
       THEN [r.unit EXCEPT !.entries[entry_id].attrs = entry_set(@, from.name, r.to.val)]
       ELSE r.unit

\* while let Some(from_attr) = from_attrs.next()? { ... }
RECURSIVE from_attrs(_, _, _, _)
from_attrs(fz, attrs, unit, entry_id) ==
    IF attrs = <<>> THEN unit
    ELSE from_attrs(fz, Tail(attrs),
             IF Head(attrs).name = "DW_AT_sibling"
             THEN [unit EXCEPT !.entries[entry_id].sibling = TRUE]
             ELSE from_entry_attr(fz, Head(attrs), unit, entry_id),
             entry_id)

\* HashMap::insert on unit_entry_offsets
offsets_insert(m, offset, id) ==
    [x \in DOMAIN m \cup {offset} |-> IF x = offset THEN id ELSE m[x]]

\* The context c is [ds, fz, keep, unit_id]; the state st threads the unit
\* being built, its entries list and unit_entry_offsets.
RECURSIVE from_die(_, _, _, _)
RECURSIVE from_children(_, _, _, _)

from_die(c, st, from, entry_id) ==
    LET st1 == [st EXCEPT
                  !.unit_entry_offsets = offsets_insert(@, from, <<c.unit_id, entry_id>>),
                  !.unit = from_attrs(c.fz, c.ds[from].attrs, @, entry_id)]
    IN from_children(c, st1, children(c.ds, from), entry_id)

\* a child loop that visits the children last to first
RECURSIVE from_children_reversed(_, _, _, _)
from_children_reversed(c, st, cs, entry_id) ==
    IF cs = <<>> THEN st
    ELSE LET n == Len(cs)
         IN IF cs[n] \notin c.keep
            THEN from_children_reversed(c, st, SubSeq(cs, 1, n - 1), entry_id)
            ELSE LET child_id == Len(st.unit.entries) + 1
                     st1 == [st EXCEPT
                               !.unit = unit_add(@, entry_id, c.ds[cs[n]].tag),
                               !.entries = Append(@, child_id)]
                 IN from_children_reversed(c, from_die(c, st1, cs[n], child_id),
                                           SubSeq(cs, 1, n - 1), entry_id)

\* while let Some(from_child) = from_children.next()? { ... }
from_children(c, st, cs, entry_id) ==
    IF cs = <<>> THEN st
    ELSE IF Head(cs) \notin c.keep THEN from_children(c, st, Tail(cs), entry_id)
    ELSE LET child_id == Len(st.unit.entries) + 1
             st1 == [st EXCEPT
                       !.unit = unit_add(@, entry_id, c.ds[Head(cs)].tag),
                       !.entries = Append(@, child_id)]
         IN from_children(c, from_die(c, st1, Head(cs), child_id), Tail(cs), entry_id)

\* a variant of from_unit_entry that converts the root without asking
\* die_filter
from_unit_entry_unfiltered(ds, fz, keep, g, from_root) ==
    LET unit_id == Len(g.units) + 1
        root_id == 1
        c == [ds |-> ds, fz |-> fz, keep |-> keep, unit_id |-> unit_id]
        st0 == [unit |-> NewUnit, entries |-> <<>>,
                unit_entry_offsets |-> g.unit_entry_offsets]
        st == from_die(c, [st0 EXCEPT !.entries = <<root_id>>], from_root, root_id)
    IN [units |-> Append(g.units, st.unit),
        unit_entry_offsets |-> st.unit_entry_offsets,
        converted |-> Append(g.converted, <<unit_id, st.entries>>)]

\* g is [units, unit_entry_offsets, converted]
from_unit_entry(ds, fz, keep, g, from_root) ==
    LET unit_id == Len(g.units) + 1
        root_id == 1
        c == [ds |-> ds, fz |-> fz, keep |-> keep, unit_id |-> unit_id]
        st0 == [unit |-> NewUnit, entries |-> <<>>,
                unit_entry_offsets |-> g.unit_entry_offsets]
        st == IF from_root \in keep
              THEN from_die(c, [st0 EXCEPT !.entries = <<root_id>>], from_root, root_id)
              ELSE st0
    IN [units |-> Append(g.units, st.unit),
        unit_entry_offsets |-> st.unit_entry_offsets,
        converted |-> Append(g.converted, <<unit_id, st.entries>>)]

\* while let Some(from_unit) = from_units.next()? { converted.push(...) }
RECURSIVE from_units(_, _, _, _, _)
from_units(ds, fz, keep, g, us) ==
    IF us = <<>> THEN g
    ELSE from_units(ds, fz, keep, from_unit_entry(ds, fz, keep, g, Head(us)), Tail(us))

NoOffsets == [x \in {} |-> <<0, 0>>]

convert_units(ds, fz, keep) ==
    from_units(ds, fz, keep,
               [units |-> <<>>, unit_entry_offsets |-> NoOffsets, converted |-> <<>>],
               units_of(ds))

\* the second pass on one attribute of an entry of unit unit_id
rebind_attr(g, unit_id, attr) ==
    IF attr.value.form = "UnitSectionRef"
    THEN LET id == g.unit_entry_offsets[attr.value.val]
         IN IF id[1] = unit_id THEN Attr(attr.name, ThisUnitEntryRef(id[2]))
            ELSE Attr(attr.name, AnyUnitEntryRef(id))
    ELSE attr

\* entry e of unit u is in the entries list the first pass returned for u
in_converted(g, u, e) ==
    \E x \in 1..Len(g.converted[u][2]) : g.converted[u][2][x] = e

\* an attribute holding an offset that unit_entry_offsets lacks
unresolved(g, attr) ==
    /\ attr.value.form = "UnitSectionRef"
    /\ attr.value.val \notin DOMAIN g.unit_entry_offsets

\* for (unit_id, entries) in converted { for entry_id in entries { for attr ..
\* the units with every resolvable attribute of the visited entries rebound
rebind_entries(g) ==
    [u \in 1..Len(g.units) |->
        [g.units[u] EXCEPT !.entries =
            [e \in 1..Len(g.units[u].entries) |->
                LET entry == g.units[u].entries[e]
                IN IF in_converted(g, u, e)
                   THEN [entry EXCEPT !.attrs =
                            [k \in 1..Len(entry.attrs) |->
                                IF unresolved(g, entry.attrs[k]) THEN entry.attrs[k]
                                ELSE rebind_attr(g, u, entry.attrs[k])]]
                   ELSE entry]]]

\* some visited attribute holds an offset that unit_entry_offsets lacks
has_unresolved(g) ==
    \E u \in 1..Len(g.units) : \E e \in 1..Len(g.units[u].entries) :
        /\ in_converted(g, u, e)
        /\ \E k \in 1..Len(g.units[u].entries[e].attrs) :
              unresolved(g, g.units[u].entries[e].attrs[k])

\* a second pass that leaves a placeholder it cannot resolve in place
rebind_units_lenient(g) == Ok(rebind_entries(g))

\* Convert all DebugInfoOffset to UnitEntryId
rebind_units(g) ==
    IF has_unresolved(g) THEN Err("InvalidDebugInfoOffset") ELSE Ok(rebind_entries(g))

from_unit_table(ds, fz, keep) == rebind_units(convert_units(ds, fz, keep))

\* build_new_dwarf: the keep predicate is membership in the reachable set
reachable_of(ds, fz, ord) ==
    LET deps == build_dependencies(ds, fz)
    IN get_reachable(deps.edges, deps.roots, ord)

build_new_dwarf(ds, fz, ord) == from_unit_table(ds, fz, reachable_of(ds, fz, ord))

----------------------------------------------------------------------------
(* The rewrite as a state machine: the input is read entry by entry, then   *)
(* rewritten once, by from_dwarf under a keep predicate of the caller or by *)
(* build_new_dwarf under the reachable set.                                 *)

\* The iteration orders of the hash sets of offsets
DieOrders ==
    {o \in [1..MaxDies -> 1..MaxDies] : \A i, j \in 1..MaxDies : i # j => o[i] # o[j]}

DieInit ==
    /\ dies = <<>>
    /\ out = NotRun
    /\ rnglist = NoRngList
    /\ filterZero \in BOOLEAN
    /\ ranges = <<>>
    /\ index = EmptyMap
    /\ function_ranges = <<>>
    /\ indexed = FALSE
    /\ inOrder = TRUE
    /\ lastKey = -1
    /\ q = NoQuery
    /\ edges = NoEdges
    /\ roots = {}
    /\ reach = NotRun
    /\ tab = NoTable
    /\ from_row = NewLineRow
    /\ temp_line_sequence = NewTempLineSequence
    /\ program = NewLineProgram
    /\ lstatus = "running"
    /\ lcount = 0

\* the record of a run: the result of from_unit_table and, as history, the
\* keep predicate and what the first pass left
Rewritten(keep, pipeline) ==
    LET g == convert_units(dies, filterZero, keep)
    IN [run |-> TRUE, pipeline |-> pipeline, keep |-> keep,
        pass1 |-> g, res |-> rebind_units(g)]

ReadDie ==
    /\ out = NotRun
    /\ Len(dies) < MaxDies
    /\ dies' \in Extend(dies)
    /\ UNCHANGED <<out, dieFrame>>

FromDwarf(keep) ==
    /\ out = NotRun
    /\ dies # <<>>
    /\ out' = Rewritten(keep, FALSE)
    /\ UNCHANGED <<dies, dieFrame>>

BuildNewDwarf(ord) ==
    /\ out = NotRun
    /\ dies # <<>>
    /\ out' = Rewritten(reachable_of(dies, filterZero, ord), TRUE)
    /\ UNCHANGED <<dies, dieFrame>>

\* from_dwarf under any keep predicate of the caller
DieNext ==
    \/ ReadDie
    \/ \E keep \in SUBSET (1..Len(dies)) : FromDwarf(keep)

DieSpec == DieInit /\ [][DieNext]_vars

\* build_new_dwarf, its hash sets visited in any order
PipeNext ==
    \/ ReadDie
    \/ \E ord \in DieOrders : BuildNewDwarf(ord)

PipeSpec == DieInit /\ [][PipeNext]_vars

\* every reference of the input points at an entry of the input
InputWellFormed == RefsWellFormed(dies)

----------------------------------------------------------------------------
(* Properties of the rewrite *)

\* the entries above entry i in the input tree
Ancestors(ds, i) ==
    {j \in 1..(i - 1) : \A k \in (j + 1)..i : ds[k].depth > ds[j].depth}

\* entry b and the entries below it
Subtree(ds, b) == {i \in 1..Len(ds) : i = b \/ b \in Ancestors(ds, i)}

\* the input entries the rewrite emits an entry for: kept, under kept ancestors
Emitted(ds, keep) == {i \in 1..Len(ds) : i \in keep /\ Ancestors(ds, i) \subseteq keep}

\* the attributes of input entry i that the rewrite copies as inter-DIE
\* references (DW_AT_sibling is turned into a flag, not copied)
CopiedRefs(ds, i) ==
    {k \in 1..Len(ds[i].attrs) :
        /\ ds[i].attrs[k].name # "DW_AT_sibling"
        /\ ds[i].attrs[k].value.form \in {"UnitRef", "DebugInfoRef"}}

\* the output entry emitted for input entry i
OutId(i) == out.pass1.unit_entry_offsets[i]
OutEntry(i) == out.res.val[OutId(i)[1]].entries[OutId(i)[2]]

HasAttr(entry, name) == \E k \in 1..Len(entry.attrs) : entry.attrs[k].name = name
AttrOf(entry, name) ==
    entry.attrs[CHOOSE k \in 1..Len(entry.attrs) : entry.attrs[k].name = name].value

\* the reference value that points from the entry emitted for i at the
\* entry emitted for t
RefBetween(i, t) ==
    IF OutId(t)[1] = OutId(i)[1] THEN ThisUnitEntryRef(OutId(t)[2])
    ELSE AnyUnitEntryRef(OutId(t))

\* C4: when from_unit_table returns Ok, every reference attribute of every
\* emitted entry points at the entry emitted for the referenced input entry
\* and no UnitSectionRef placeholder is left; when an emitted entry's copied
\* reference names an input offset for which no entry was emitted, the
\* result is the error InvalidDebugInfoOffset.
C4_ReferenceIntegrity ==
    out.run =>
        LET em == Emitted(dies, out.keep)
        IN /\ DOMAIN out.pass1.unit_entry_offsets = em
           /\ out.res.ok =>
                \A i \in em :
                    /\ \A k \in 1..Len(OutEntry(i).attrs) :
                          LET v == OutEntry(i).attrs[k].value
                          IN /\ v.form # "UnitSectionRef"
                             /\ v.form = "ThisUnitEntryRef" =>
                                   \E t \in em : OutId(t) = <<OutId(i)[1], v.val>>
                             /\ v.form = "AnyUnitEntryRef" =>
                                   \E t \in em : OutId(t) = v.val
                    /\ \A k \in CopiedRefs(dies, i) :
                          LET a == dies[i].attrs[k]
                          IN /\ a.value.val \in em
                             /\ HasAttr(OutEntry(i), a.name)
                             /\ AttrOf(OutEntry(i), a.name) = RefBetween(i, a.value.val)
           /\ (\E i \in em : \E k \in CopiedRefs(dies, i) :
                   dies[i].attrs[k].value.val \notin em)
                => out.res = Err("InvalidDebugInfoOffset")

\* a forward reference was rebound while another entry was dropped
C4_Witness ==
    /\ out.run
    /\ out.res.ok
    /\ Emitted(dies, out.keep) # 1..Len(dies)
    /\ \E i \in Emitted(dies, out.keep) : \E k \in CopiedRefs(dies, i) :
          /\ dies[i].attrs[k].value.val > i
          /\ AttrOf(OutEntry(i), dies[i].attrs[k].name).form = "ThisUnitEntryRef"

\* the round trip's precondition: the identity translator with filter-zero
\* = false and a keep predicate that is constantly true
IdentityKeepAll == out.run /\ ~filterZero /\ out.keep = 1..Len(dies)

\* the range list a DW_AT_ranges of the input denotes
DenotedRanges ==
    [k \in 1..Len(RawRanges) |->
        [begin |-> Constant(RawRanges[k].begin), length |-> RawRanges[k].length]]

\* output value `to` of the entry emitted for i has the value of input `from`
SameValue(i, from, to) ==
    CASE from.form = "Addr" -> to = Address(Constant(from.val))
      [] from.form \in {"UnitRef", "DebugInfoRef"} -> to = RefBetween(i, from.val)
      [] from.form = "RangeListsRef" ->
           /\ to.form = "RangeListRef"
           /\ to.val \in 1..Len(out.res.val[OutId(i)[1]].ranges)
           /\ out.res.val[OutId(i)[1]].ranges[to.val] = DenotedRanges
      [] OTHER -> to = from

\* every input unit has an output unit whose entries have the input's tags,
\* parents and children, in the input's order
SameShape ==
    /\ Len(out.res.val) = Len(units_of(dies))
    /\ \A u \in 1..Len(units_of(dies)) :
          LET r == units_of(dies)[u]
              members == {i \in 1..Len(dies) : unit_of(dies, i) = r}
          IN /\ Len(out.res.val[u].entries) = Cardinality(members)
             /\ \A i \in members :
                   /\ OutId(i) = <<u, i - r + 1>>
                   /\ OutEntry(i).tag = dies[i].tag
                   /\ OutEntry(i).parent =
                         IF parent_of(dies, i) = 0 THEN 0 ELSE parent_of(dies, i) - r + 1
                   /\ OutEntry(i).children =
                         [k \in 1..Len(children(dies, i)) |-> children(dies, i)[k] - r + 1]

NotCopied(a) == a.name = "DW_AT_sibling" \/ a.value.form = "DebugAddrBase"

----------------------------------------------------------------------------
(* Properties of the pipeline of build_new_dwarf *)

\* the iteration order that visits the offsets in ascending order
Ascending == [i \in 1..MaxDies |-> i]

\* C7: whatever the order in which a run of the pipeline visited the hash
\* sets of roots and of successors, its reachable set and its output are
\* those of the run that visits them in ascending order: all runs on one
\* input and translator agree.
C7_OrderIndependent ==
    (out.run /\ out.pipeline) =>
        /\ out.keep = reachable_of(dies, filterZero, Ascending)
        /\ out.res = build_new_dwarf(dies, filterZero, Ascending)

\* the pipeline ran on an input with two roots and dropped an entry
C7_Witness ==
    /\ out.run
    /\ out.pipeline
    /\ Cardinality(build_dependencies(dies, filterZero).roots) >= 2
    /\ out.keep # 1..Len(dies)

\* input entry i has an entry in the output
InOutput(i) == i \in DOMAIN out.pass1.unit_entry_offsets

\* the offsets the attributes of entry i refer to, DW_AT_sibling included
References(ds, i) ==
    {ds[i].attrs[k].value.val :
        k \in {k \in 1..Len(ds[i].attrs) :
                  ds[i].attrs[k].value.form \in {"UnitRef", "DebugInfoRef"}}}

\* entry i is a subprogram whose low_pc is an address
HasLowPc(ds, i) ==
    /\ ds[i].tag = "DW_TAG_subprogram"
    /\ \E k \in 1..Len(ds[i].attrs) :
          ds[i].attrs[k].name = "DW_AT_low_pc" /\ ds[i].attrs[k].value.form = "Addr"

LowPcTranslates(ds, i) ==
    \E k \in 1..Len(ds[i].attrs) :
        /\ ds[i].attrs[k].name = "DW_AT_low_pc"
        /\ id_translate_address(filterZero, ds[i].attrs[k].value.val) # <<>>

\* sibling subprograms a and b: the low_pc of a translates, that of b does
\* not, b has no DW_AT_ranges and no entry of the output refers to b
DeadCodePair(a, b) ==
    /\ a # b
    /\ parent_of(dies, a) = parent_of(dies, b)
    /\ HasLowPc(dies, a) /\ LowPcTranslates(dies, a)
    /\ HasLowPc(dies, b) /\ ~LowPcTranslates(dies, b)
    /\ ~HasAttr(dies[b], "DW_AT_ranges")
    /\ \A i \in 1..Len(dies) : InOutput(i) => b \notin References(dies, i)

\* C10 as stated: in the pipeline the output contains the first subprogram
\* of such a pair and its children, and neither the second subprogram nor
\* any entry of its subtree.
C10_DeadCodeAsStated ==
    (out.run /\ out.pipeline) =>
        \A a, b \in 1..Len(dies) :
            DeadCodePair(a, b) =>
                /\ InOutput(a)
                /\ \A c \in 1..Len(dies) : parent_of(dies, c) = a => InOutput(c)
                /\ \A d \in Subtree(dies, b) : ~InOutput(d)

\* the tags of the structural dependents of a parent
StructuralTags ==
    {"DW_TAG_variable", "DW_TAG_constant", "DW_TAG_inlined_subroutine",
     "DW_TAG_lexical_block", "DW_TAG_label", "DW_TAG_with_stmt", "DW_TAG_try_block",
     "DW_TAG_catch_block", "DW_TAG_template_type_parameter", "DW_TAG_member",
     "DW_TAG_formal_parameter"}

\* entry d is a retention root: a subprogram whose low_pc is an address that
\* translates, or one without such a low_pc that bears DW_AT_ranges
RetentionRoot(d) ==
    /\ dies[d].tag = "DW_TAG_subprogram"
    /\ dies[d].depth > 0
    /\ IF HasLowPc(dies, d) THEN LowPcTranslates(dies, d)
       ELSE HasAttr(dies[d], "DW_AT_ranges")

\* no entry of the subtree of b is a retention root, and no entry of the
\* output outside that subtree refers to an entry of it
NothingLiveBelow(b) ==
    /\ \A d \in Subtree(dies, b) : ~RetentionRoot(d)
    /\ \A i \in 1..Len(dies) :
          (InOutput(i) /\ i \notin Subtree(dies, b))
              => References(dies, i) \cap Subtree(dies, b) = {}

\* C10 amended: in the pipeline the output contains the first subprogram of
\* such a pair and those of its children that are structural dependents
\* (variable, formal_parameter, lexical_block, ...); its other children are
\* in the output only when they are reachable themselves. The output
\* contains neither the second subprogram nor any entry of its subtree
\* provided that subtree holds no retention root and no entry referred to
\* from an output entry outside of it.
C10_DeadCode ==
    (out.run /\ out.pipeline) =>
        \A a, b \in 1..Len(dies) :
            DeadCodePair(a, b) =>
                /\ InOutput(a)
                /\ \A c \in 1..Len(dies) :
                      parent_of(dies, c) = a =>
                          /\ dies[c].tag \in StructuralTags => InOutput(c)
                          /\ InOutput(c) <=> c \in out.keep
                /\ NothingLiveBelow(b) => \A d \in Subtree(dies, b) : ~InOutput(d)

\* the first subprogram is in the output with a variable below it, the
\* second is dropped
C10_Witness ==
    /\ out.run
    /\ out.pipeline
    /\ \E a, b \in 1..Len(dies) :
          /\ DeadCodePair(a, b)
          /\ NothingLiveBelow(b)
          /\ \E c \in 1..Len(dies) :
                parent_of(dies, c) = a /\ dies[c].tag = "DW_TAG_variable" /\ InOutput(c)
          /\ ~InOutput(b)

----------------------------------------------------------------------------
(* The line-program rewrite under the identity translator *)

\* the original addresses the rewrite may ask about: a base plus a row address
LineAddrs == 0..(2 * SetMax(SetAddressValues) + MaxInstr * SetMax(Advances))

\* IdentityAddressTranslator(false) as a table: every address translates to
\* itself
IdentityTable == [a \in LineAddrs |-> <<a>>]

LineIdInit ==
    /\ tab = IdentityTable
    /\ from_row = NewLineRow
    /\ temp_line_sequence = NewTempLineSequence
    /\ program = NewLineProgram
    /\ lstatus = "running"
    /\ lcount = 0
    /\ dies = <<>>
    /\ out = NotRun
    /\ rnglist = NoRngList
    /\ ranges = <<>>
    /\ index = EmptyMap
    /\ function_ranges = <<>>
    /\ indexed = FALSE
    /\ inOrder = TRUE
    /\ lastKey = -1
    /\ q = NoQuery
    /\ filterZero = FALSE
    /\ edges = NoEdges
    /\ roots = {}
    /\ reach = NotRun

LineIdSpec == LineIdInit /\ [][LineNext]_vars

\* the number of occurrences of x in s
Count(s, x) == Cardinality({i \in 1..Len(s) : s[i] = x})

\* s and t hold the same elements the same number of times
SameBag(s, t) ==
    /\ Len(s) = Len(t)
    /\ \A i \in 1..Len(s) : Count(s, s[i]) = Count(t, s[i])

\* the (offset, row) pairs of a pending sequence when the offset handed to
\* the translator is the row's address relative to the SetAddress base
RECURSIVE relative_rows(_, _, _)
relative_rows(t, base, rows) ==
    IF rows = <<>> THEN <<>>
    ELSE LET offs == translate_offset(t, base, Head(rows).address_offset - base)
         IN [i \in 1..Len(offs) |-> [address_offset |-> offs[i], line |-> Head(rows).line]]
            \o relative_rows(t, base, Tail(rows))

\* C11: when a sequence is emitted, its rows are exactly the pairs (off,
\* metadata of r) for each pending row r and each off in
\* translate_offset(B, A_r - B), B the SetAddress base and A_r the original
\* address of r (stated for the sequences whose rows all follow their
\* SetAddress, A_r >= B).
C11_RowsFromOwnAddress ==
    [][Len(program'.sequences) > Len(program.sequences) =>
          LET B == temp_line_sequence.base_address.val
              new == program'.sequences[Len(program'.sequences)]
          IN (\A i \in 1..Len(temp_line_sequence.rows) :
                  temp_line_sequence.rows[i].address_offset >= B)
             => SameBag(new.rows, relative_rows(tab', B, temp_line_sequence.rows))]_vars

----------------------------------------------------------------------------
(* Range lists (convert.rs, from_rangelist) *)

\* The bound of the range-list model: the number of raw entries of a list.
MaxRngEntries == 3

\* The unit's .debug_addr table, indexed from 0 by the *x forms.
debug_addr == <<1, 3>>

\* Dwarf::address: the table entry at an index, an error past its end
dwarf_address(i) ==
    IF i < Len(debug_addr) THEN Ok(debug_addr[i + 1]) ELSE Err("UnexpectedEof")

\* The begin/end (or begin/length) operands of the raw entries, the address
\* operands of the base-address entries and the .debug_addr indices used.
RngPairs == {<<0, 1>>, <<1, 2>>}
RngBases == {1, 2}
RngIndices == {0, 2}

\* read::RawRngListEntry
RawRngListEntries ==
    {[kind |-> k, begin |-> p[1], end |-> p[2]] :
        k \in {"AddressOrOffsetPair", "OffsetPair", "StartEnd"}, p \in RngPairs}
    \cup {[kind |-> "StartLength", begin |-> p[1], length |-> p[2] - p[1]] : p \in RngPairs}
    \cup {[kind |-> "StartxEndx", begin |-> 0, end |-> i] : i \in {1, 2}}
    \cup {[kind |-> "StartxLength", begin |-> i, length |-> 1] : i \in RngIndices}
    \cup {[kind |-> "BaseAddress", addr |-> a] : a \in RngBases}
    \cup {[kind |-> "BaseAddressx", addr |-> i] : i \in RngIndices}

\* The translators a range list is converted under: the identity translator
\* with and without its zero filter, and a duplicating translator whose
\* translate_range yields two copies of a range starting at an odd address
\* and nothing for the others.
RngTranslators ==
    {[kind |-> "identity", filter |-> fz] : fz \in BOOLEAN}
    \cup {[kind |-> "duplicating", filter |-> FALSE]}

\* AddressTranslator::translate_range of these translators
at_translate_range(at, start, len) ==
    IF at.kind = "identity" THEN id_translate_range(at.filter, start, len)
    ELSE IF start % 2 = 1
         THEN <<<<Constant(start + 10), len>>, <<Constant(start + 20), len>>>>
         ELSE <<>>

\* a variant of initial_base_address that ignores the unit's low_pc
initial_base_none(context_base_address) == None

\* from_rangelist, lines 421-425: the base address the loop starts with
initial_base_address(context_base_address) ==
    IF context_base_address # 0 THEN Some(context_base_address) ELSE None

\* Option::unwrap_or
unwrap_or(opt, default) == IF opt.some THEN opt.val ELSE default

\* from_rangelist, lines 427-460: the loop over the raw entries; st holds
\* base_address and ranges, the result is Ok(ranges) or the error of `?`
RECURSIVE collect_ranges(_, _)
collect_ranges(from, st) ==
    IF from = <<>> THEN Ok(st.ranges)
    ELSE LET e == Head(from)
             push(r) == [st EXCEPT !.ranges = Append(@, r)]
         IN CASE e.kind = "AddressOrOffsetPair" ->
                    collect_ranges(Tail(from),
                        push(IF st.base_address.some
                             THEN <<e.begin + st.base_address.val, e.end - e.begin>>
                             ELSE <<e.begin, e.end - e.begin>>))
              [] e.kind = "BaseAddress" ->
                    collect_ranges(Tail(from), [st EXCEPT !.base_address = Some(e.addr)])
              [] e.kind = "BaseAddressx" ->
                    LET address == dwarf_address(e.addr)
                    IN IF ~address.ok THEN address
                       ELSE collect_ranges(Tail(from),
                                [st EXCEPT !.base_address = Some(address.val)])
              [] e.kind = "StartxEndx" ->
                    LET begin == dwarf_address(e.begin)
                        end == dwarf_address(e.end)
                    IN IF ~begin.ok THEN begin
                       ELSE IF ~end.ok THEN end
                       ELSE collect_ranges(Tail(from), push(<<begin.val, end.val - begin.val>>))
              [] e.kind = "StartxLength" ->
                    LET begin == dwarf_address(e.begin)
                    IN IF ~begin.ok THEN begin
                       ELSE collect_ranges(Tail(from), push(<<begin.val, e.length>>))
              [] e.kind = "OffsetPair" ->
                    collect_ranges(Tail(from),
                        push(<<e.begin + unwrap_or(st.base_address, 0), e.end - e.begin>>))
              [] e.kind = "StartEnd" ->
                    collect_ranges(Tail(from), push(<<e.begin, e.end - e.begin>>))
              [] e.kind = "StartLength" ->
                    collect_ranges(Tail(from), push(<<e.begin, e.length>>))

\* from_rangelist, lines 461-467: every range translated, every pair pushed
RECURSIVE push_translated(_, _)
push_translated(at, rs) ==
    IF rs = <<>> THEN <<>>
    ELSE LET translated == at_translate_range(at, Head(rs)[1], Head(rs)[2])
         IN [k \in 1..Len(translated) |->
                [kind |-> "StartLength", begin |-> translated[k][1],
                 length |-> translated[k][2]]]
            \o push_translated(at, Tail(rs))

\* from_rangelist over a raw list with entries of every form
from_raw_rangelist(at, context_base_address, from) ==
    LET collected == collect_ranges(from,
                        [base_address |-> initial_base_address(context_base_address),
                         ranges |-> <<>>])
    IN IF ~collected.ok THEN collected
       ELSE Ok(push_translated(at, collected.val))

RngInit ==
    /\ rnglist \in {[NoRngList EXCEPT !.at = at, !.base_address = b] :
                        at \in RngTranslators, b \in {0, 1}}
    /\ dies = <<>>
    /\ out = NotRun
    /\ filterZero = FALSE
    /\ ranges = <<>>
    /\ index = EmptyMap
    /\ function_ranges = <<>>
    /\ indexed = FALSE
    /\ inOrder = TRUE
    /\ lastKey = -1
    /\ q = NoQuery
    /\ edges = NoEdges
    /\ roots = {}
    /\ reach = NotRun
    /\ tab = NoTable
    /\ from_row = NewLineRow
    /\ temp_line_sequence = NewTempLineSequence
    /\ program = NewLineProgram
    /\ lstatus = "running"
    /\ lcount = 0

\* One more raw entry of the unit's range list is read.
ReadRngListEntry(e) ==
    /\ ~rnglist.run
    /\ Len(rnglist.raw) < MaxRngEntries
    /\ rnglist' = [rnglist EXCEPT !.raw = Append(@, e)]
    /\ UNCHANGED <<mapVars, q, filterZero, gcVars, lineVars, dieVars>>

FromRangelist ==
    /\ ~rnglist.run
    /\ rnglist' = [at |-> rnglist.at, base_address |-> rnglist.base_address,
                   raw |-> rnglist.raw, run |-> TRUE,
                   res |-> from_raw_rangelist(rnglist.at, rnglist.base_address, rnglist.raw)]
    /\ UNCHANGED <<mapVars, q, filterZero, gcVars, lineVars, dieVars>>

RngNext ==
    \/ \E e \in RawRngListEntries : ReadRngListEntry(e)
    \/ FromRangelist

RngSpec == RngInit /\ [][RngNext]_vars

\* The entries that set the base address, and the address they set.
IsBaseEntry(e) == e.kind \in {"BaseAddress", "BaseAddressx"}
BaseOfEntry(e) == IF e.kind = "BaseAddress" THEN e.addr ELSE debug_addr[e.addr + 1]

\* Every .debug_addr index of the list is inside the table.
Resolvable(raw) ==
    \A k \in 1..Len(raw) :
        /\ raw[k].kind = "BaseAddressx" => raw[k].addr < Len(debug_addr)
        /\ raw[k].kind = "StartxEndx" =>
                raw[k].begin < Len(debug_addr) /\ raw[k].end < Len(debug_addr)
        /\ raw[k].kind = "StartxLength" => raw[k].begin < Len(debug_addr)

\* The base address in force at entry k: the address of the latest
\* base-address entry before k, the unit's low_pc when there is none.
CurrentBase(r, k) ==
    LET bs == {j \in 1..(k - 1) : IsBaseEntry(r.raw[j])}
    IN IF bs = {} THEN r.base_address ELSE BaseOfEntry(r.raw[SetMax(bs)])

\* The absolute original range <<start, len>> of the range entry k.
AbsoluteRange(r, k) ==
    LET e == r.raw[k]
    IN CASE e.kind \in {"AddressOrOffsetPair", "OffsetPair"} ->
                <<e.begin + CurrentBase(r, k), e.end - e.begin>>
         [] e.kind = "StartEnd" -> <<e.begin, e.end - e.begin>>
         [] e.kind = "StartLength" -> <<e.begin, e.length>>
         [] e.kind = "StartxEndx" ->
                <<debug_addr[e.begin + 1], debug_addr[e.end + 1] - debug_addr[e.begin + 1]>>
         [] e.kind = "StartxLength" -> <<debug_addr[e.begin + 1], e.length>>

\* What entry k contributes: nothing for a base-address entry, one
\* StartLength per translated pair for a range entry.
Contribution(r, k) ==
    IF IsBaseEntry(r.raw[k]) THEN <<>>
    ELSE LET t == at_translate_range(r.at, AbsoluteRange(r, k)[1], AbsoluteRange(r, k)[2])
         IN [i \in 1..Len(t) |-> [kind |-> "StartLength", begin |-> t[i][1], length |-> t[i][2]]]

RECURSIVE ContributionsFrom(_, _)
ContributionsFrom(r, k) ==
    IF k > Len(r.raw) THEN <<>> ELSE Contribution(r, k) \o ContributionsFrom(r, k + 1)

\* C12: from_rangelist outputs, in input order, one StartLength entry for
\* every pair translate_range returns for the absolute original range of
\* each input range entry (offset pairs are added to the current base
\* address, which starts as the unit's low_pc and is replaced by each
\* base-address entry); entries without a translation and base-address
\* entries contribute nothing.
C12_RangeListTranslated ==
    (rnglist.run /\ Resolvable(rnglist.raw))
        => /\ rnglist.res.ok
           /\ rnglist.res.val = ContributionsFrom(rnglist, 1)

\* A list with a non-zero low_pc, an offset pair before and after a
\* base-address entry, converted under the duplicating translator to more
\* than one output entry.
C12_Witness ==
    /\ rnglist.run
    /\ rnglist.res.ok
    /\ rnglist.at.kind = "duplicating"
    /\ rnglist.base_address = 1
    /\ Len(rnglist.raw) = 3
    /\ rnglist.raw[1].kind = "OffsetPair"
    /\ IsBaseEntry(rnglist.raw[2])
    /\ rnglist.raw[3].kind \in {"OffsetPair", "AddressOrOffsetPair"}
    /\ Len(rnglist.res.val) = 2

----------------------------------------------------------------------------
(* The transform translator (TranformAddressTranslator) *)

\* Bounds of the transform-translator model: the keypoints inserted and the
\* length of a translated range.
TrMaxInserts == 4
TrMaxOrig == 3
TrMaxLen == 2

\* The original addresses inserted and queried.
TrAddrs == 0..TrMaxOrig

\* from_target_address
from_target_address(addr) == Constant(addr)

\* TranformAddressTranslator::translate_address, given what the lookup
\* iterator yields
tr_addresses(addr, yielded) ==
    IF addr = 0 THEN <<>>
    ELSE [i \in 1..Len(yielded) |-> from_target_address(yielded[i])]

\* a variant of tr_base_address without the test for address 0
tr_base_address_unfiltered(addr, yielded) ==
    IF yielded = <<>> THEN None ELSE Some(from_target_address(yielded[1]))

\* TranformAddressTranslator::translate_base_address, given what the lookup
\* iterator yields: the first element
tr_base_address(addr, yielded) ==
    IF addr = 0 THEN None
    ELSE IF yielded = <<>> THEN None
    ELSE Some(from_target_address(yielded[1]))

\* AddressMapIndexed::lookup_range: the range indices of the index keys
\* from the greatest key <= start through end
lookup_range_indices(idx, start, end) ==
    LET e == index_at(idx, start)
        keys == {k \in DOMAIN idx : (e.found => e.key <= k) /\ k <= end}
    IN UNION {{idx[k][i] : i \in 1..Len(idx[k])} : k \in keys}

\* a variant of lookup_range_next that yields the empty intervals too
RECURSIVE lookup_range_next_keep_empty(_, _, _, _)
lookup_range_next_keep_empty(rs, todo, start, end) ==
    IF todo = {} THEN {<<>>}
    ELSE LET range_index == SetMin(todo)
             range == rs[range_index]
         IN {<<<<s, e>>>> \o rest :
                s \in point_targets(range, start),
                e \in point_targets(range, end),
                rest \in lookup_range_next_keep_empty(rs, todo \ {range_index}, start, end)}

\* LookupRangeIterator::next until exhausted: the ranges in ascending index
\* order, both ends looked up, the empty intervals skipped
RECURSIVE lookup_range_next(_, _, _, _)
lookup_range_next(rs, todo, start, end) ==
    IF todo = {} THEN {<<>>}
    ELSE LET range_index == SetMin(todo)
             range == rs[range_index]
         IN {(IF s < e THEN <<<<s, e>>>> ELSE <<>>) \o rest :
                s \in point_targets(range, start),
                e \in point_targets(range, end),
                rest \in lookup_range_next(rs, todo \ {range_index}, start, end)}

lookup_range(rs, idx, start, end) ==
    lookup_range_next(rs, lookup_range_indices(idx, start, end), start, end)

\* a variant of merge_ranges that never merges
merge_never(current, it, result) ==
    Append(result, to_addr_len(current))
        \o [i \in 1..Len(it) |-> to_addr_len(it[i])]

\* TranformAddressTranslator::translate_range, lines 497-506: the merge loop
RECURSIVE merge_ranges(_, _, _)
merge_ranges(current, it, result) ==
    IF it = <<>> THEN Append(result, to_addr_len(current))
    ELSE LET next == Head(it)
         IN IF current[2] = next[1]
            THEN merge_ranges(<<current[1], next[2]>>, Tail(it), result)
            ELSE merge_ranges(next, Tail(it), Append(result, to_addr_len(current)))

\* TranformAddressTranslator::translate_range, given what lookup_range yields
tr_ranges(start, it) ==
    IF start = 0 THEN <<>>
    ELSE IF it = <<>> THEN <<>>
    ELSE merge_ranges(Head(it), Tail(it), <<>>)

\* AddressMap::insert; the map is read before any translator is queried
TrInsert(key, addr) ==
    /\ ~indexed
    /\ q = NoQuery
    /\ NumKeypoints(ranges) < TrMaxInserts
    /\ ranges' = insert(ranges, key, addr)
    /\ inOrder' = (inOrder /\ lastKey <= key)
    /\ lastKey' = key
    /\ UNCHANGED <<index, function_ranges, indexed, q, mapFrame>>

\* TranformAddressTranslator::new
TrNew ==
    /\ ~indexed
    /\ function_ranges' = <<>>
    /\ index' = generate_index(ranges)
    /\ indexed' = TRUE
    /\ UNCHANGED <<ranges, inOrder, lastKey, q, mapFrame>>

\* The queries leave the translator as it is: a behaviour asks one, which
\* reaches every pair of a map and a query's result.
TrLookupAddress(addr) ==
    /\ indexed
    /\ q = NoQuery
    /\ \E y \in lookup_address(ranges, index, addr) :
          q' = [op |-> "lookup_address", addr |-> addr, res |-> y]
    /\ UNCHANGED <<mapVars, mapFrame>>

TrTranslateAddress(addr) ==
    /\ indexed
    /\ q = NoQuery
    /\ \E y \in lookup_address(ranges, index, addr) :
          q' = [op |-> "translate_address", addr |-> addr, res |-> tr_addresses(addr, y)]
    /\ UNCHANGED <<mapVars, mapFrame>>

\* translate_base_address, with what translate_address returns for the
\* same address kept as history
TrTranslateBaseAddress(addr) ==
    /\ indexed
    /\ q = NoQuery
    /\ \E y \in lookup_address(ranges, index, addr) :
          q' = [op |-> "translate_base_address", addr |-> addr,
                res |-> tr_base_address(addr, y),
                addresses |-> tr_addresses(addr, y)]
    /\ UNCHANGED <<mapVars, mapFrame>>

\* translate_range, with what lookup_range yields kept as history
TrTranslateRange(start, len) ==
    /\ indexed
    /\ q = NoQuery
    /\ \E it \in lookup_range(ranges, index, start, start + len) :
          q' = [op |-> "translate_range", addr |-> start, len |-> len,
                it |-> it, res |-> tr_ranges(start, it)]
    /\ UNCHANGED <<mapVars, mapFrame>>

\* IdentityAddressTranslator(fz).translate_base_address (the trait default),
\* with what its translate_address returns kept as history; the identity
\* translator is the one in use when no map was read (main.rs, lines 82-86)
IdTranslateBaseAddress(fz, addr) ==
    /\ ranges = <<>>
    /\ q = NoQuery
    /\ q' = [op |-> "id_translate_base_address", filter |-> fz, addr |-> addr,
             res |-> id_translate_base_address(fz, addr),
             addresses |-> id_translate_address(fz, addr)]
    /\ UNCHANGED <<mapVars, mapFrame>>

TrNext ==
    \/ \E key \in TargetAddrs, addr \in TrAddrs : TrInsert(key, addr)
    \/ TrNew
    \/ \E addr \in TrAddrs : TrLookupAddress(addr)
    \/ \E addr \in TrAddrs : TrTranslateAddress(addr)
    \/ \E addr \in TrAddrs : TrTranslateBaseAddress(addr)
    \/ \E start \in TrAddrs, len \in 0..TrMaxLen : TrTranslateRange(start, len)
    \/ \E fz \in BOOLEAN, addr \in TrAddrs : IdTranslateBaseAddress(fz, addr)

TrSpec == MapInit /\ [][TrNext]_vars

\* The ranges whose original-address span covers o.
Covering(rs, o) == {r \in 1..Len(rs) : o \in Span(rs[r])}

\* C13: when an original address is covered by two or more ranges of the
\* map, lookup_address and the transform translator's translate_address
\* yield one target for each of those ranges.
C13_OneTargetPerRange ==
    (/\ q.op \in {"lookup_address", "translate_address"}
     /\ q.addr # 0
     /\ Cardinality(Covering(ranges, q.addr)) >= 2)
        => Len(q.res) = Cardinality(Covering(ranges, q.addr))

----------------------------------------------------------------------------
(* The unit root in the rewrite (convert.rs, from_unit_entry) *)

\* The roots of the input units, and the position of a root's unit.
UnitRoots(ds) == {i \in 1..Len(ds) : ds[i].depth = 0}
UnitIndex(ds, r) == Cardinality({j \in UnitRoots(ds) : j <= r})

\* C14 as stated: the root DIE of every input unit is converted whether or
\* not keep(root_offset) is true.
C14_RootRetainedAsStated ==
    out.run => \A r \in UnitRoots(dies) : InOutput(r)

\* C14 amended: the root DIE of an input unit is converted, as the root of
\* the unit's output unit, exactly when keep(root_offset) is true; when it
\* is false no entry of the unit is converted, whatever keep says of them,
\* and the output unit consists of its empty root.
C14_RootRetainedIfKept ==
    out.run =>
        \A r \in UnitRoots(dies) :
            IF r \in out.keep
            THEN InOutput(r) /\ OutId(r) = <<UnitIndex(dies, r), 1>>
            ELSE /\ \A i \in Subtree(dies, r) : ~InOutput(i)
                 /\ out.pass1.units[UnitIndex(dies, r)] = NewUnit

\* Two units: the first root is not kept though an entry below it is, the
\* second root is kept.
C14_Witness ==
    /\ out.run
    /\ \E r1, r2 \in UnitRoots(dies) :
          /\ r1 < r2
          /\ r1 \notin out.keep
          /\ \E i \in Subtree(dies, r1) : i \in out.keep
          /\ r2 \in out.keep
          /\ InOutput(r2)

----------------------------------------------------------------------------
(* Properties of the transform translator *)

\* The target addresses of half-open intervals <<start, end>>, and of
\* (Address, length) pairs.
IntervalPoints(it) == UNION {it[i][1]..(it[i][2] - 1) : i \in 1..Len(it)}
PairPoints(res) == UNION {res[i][1].val..(res[i][1].val + res[i][2] - 1) : i \in 1..Len(res)}

\* No entry of res ends where the next one starts.
NoAdjacentEntries(res) ==
    \A i \in 1..(Len(res) - 1) : res[i][1].val + res[i][2] # res[i + 1][1].val

\* C15 as stated: for every start, translate_range(start, len) has no two
\* consecutive entries (a, la), (b, lb) with a + la = b, and the union of its
\* intervals is the union of those lookup_range(start, start + len) yields.
C15_MergedRangesAsStated ==
    q.op = "translate_range" =>
        /\ NoAdjacentEntries(q.res)
        /\ PairPoints(q.res) = IntervalPoints(q.it)

\* C15 amended: the same for every start other than 0; translate_range(0,
\* len) is empty whatever lookup_range yields.
C15_MergedRanges ==
    q.op = "translate_range" =>
        IF q.addr = 0 THEN q.res = <<>>
        ELSE /\ NoAdjacentEntries(q.res)
             /\ PairPoints(q.res) = IntervalPoints(q.it)

\* The lookup yields two intervals, the second starting where the first
\* ends, and translate_range returns the one merged entry.
C15_Witness ==
    /\ q.op = "translate_range"
    /\ q.addr # 0
    /\ Len(q.it) = 2
    /\ q.it[1][2] = q.it[2][1]
    /\ q.res = <<to_addr_len(<<q.it[1][1], q.it[2][2]>>)>>


\* The elements of a sequence of addresses.
AddressesOf(addresses) == {addresses[i] : i \in 1..Len(addresses)}

----------------------------------------------------------------------------
(* The wdwarf-cp copy of the address map and of the translator trait
   (src/wdwarf-cp/src/address_translator.rs) *)

\* AddressMap::insert of the copy: the range's `last` target is compared
\* with the new original address
cp_insert(rs, key, addr) == insert_cmp_last(rs, key, addr)

\* binary_search_by on the keypoints of a range of the copy, whose originals
\* need not be sorted: on a sorted slice as binary_search, on an unsorted
\* one the result is unspecified (a hit, or any insertion position)
cp_binary_search(kps, addr) ==
    IF NonDecreasing([i \in 1..Len(kps) |-> kps[i][1]])
    THEN binary_search(kps, addr)
    ELSE {[ok |-> TRUE, i |-> i] : i \in {i \in 1..Len(kps) : kps[i][1] = addr}}
         \cup {[ok |-> FALSE, i |-> i] : i \in 1..(Len(kps) + 1)}

\* a variant of cp_point_target that reads the keypoint at the insertion
\* position
cp_point_target_at(range, pos) ==
    [panic |-> FALSE, val |-> point_target(range, pos)]

\* AddressMapIndexed::lookup_address of the copy, lines 118-127: after a
\* miss the keypoint AFTER the insertion position is read; an index past
\* the array panics
cp_point_target(range, pos) ==
    IF pos.ok THEN [panic |-> FALSE, val |-> range.keypoints[pos.i][2]]
    ELSE IF pos.i <= Len(range.keypoints)
         THEN IF pos.i + 1 <= Len(range.keypoints)
              THEN [panic |-> FALSE, val |-> range.keypoints[pos.i + 1][2]]
              ELSE [panic |-> TRUE]
         ELSE [panic |-> FALSE, val |-> range.last]

\* AddressMapIndexed::lookup_address of the copy, given the search position
\* in the first listed range: Some(target), None, or a panic
cp_lookup_address(rs, idx, addr, pos) ==
    LET e == index_at(idx, addr)
    IN IF ~e.found \/ e.ranges = <<>> THEN [panic |-> FALSE, val |-> None]
       ELSE LET t == cp_point_target(rs[e.ranges[1]], pos)
            IN IF t.panic THEN t ELSE [panic |-> FALSE, val |-> Some(t.val)]

\* The search positions lookup_address may find for addr.
cp_positions(rs, idx, addr) ==
    LET e == index_at(idx, addr)
    IN IF ~e.found \/ e.ranges = <<>> THEN {[ok |-> FALSE, i |-> 0]}
       ELSE cp_binary_search(rs[e.ranges[1]].keypoints, addr)

\* TranformAddressTranslator::translate_address of the copy
cp_translate_address(rs, idx, addr, pos) ==
    IF addr = 0 THEN [panic |-> FALSE, val |-> <<>>]
    ELSE LET found == cp_lookup_address(rs, idx, addr, pos)
         IN IF found.panic THEN found
            ELSE IF found.val.some THEN [panic |-> FALSE, val |-> <<Constant(found.val.val)>>]
            ELSE [panic |-> FALSE, val |-> <<>>]

\* AddressTranslator::translate_base_address of the copy: the first address
cp_translate_base_address(addresses) ==
    IF Len(addresses) = 0 THEN None ELSE Some(addresses[1])

\* a variant of cp_offsets with the filter of the wdwarf trait
cp_offsets_filtered(translated_base, addresses) ==
    LET kept == SelectSeq(addresses, LAMBDA a : ~(translated_base.val > a.val))
    IN [underflow |-> FALSE,
        val |-> [i \in 1..Len(kept) |-> kept[i].val - translated_base.val]]

\* AddressTranslator::translate_offset of the copy, lines 172-175: every
\* address mapped with calc_address_offset (val2 - val1 on u64); an
\* underflow panics in a build with overflow checks and wraps modulo 2^64
\* in one without
cp_offsets(translated_base, addresses) ==
    IF \E i \in 1..Len(addresses) : addresses[i].val < translated_base.val
    THEN [underflow |-> TRUE]
    ELSE [underflow |-> FALSE,
          val |-> [i \in 1..Len(addresses) |-> addresses[i].val - translated_base.val]]

\* TranformAddressTranslator::new of the copy. A range of the copy may end
\* at a smaller original address than it starts at; generate_index then
\* panics in range_mut(first_addr..=last_addr) and no translator exists.
CpNew ==
    /\ ~indexed
    /\ \A r \in 1..Len(ranges) : first_addr_of(ranges[r]) <= last_addr_of(ranges[r])
    /\ function_ranges' = <<>>
    /\ index' = generate_index(ranges)
    /\ indexed' = TRUE
    /\ UNCHANGED <<ranges, inOrder, lastKey, q, mapFrame>>

\* AddressMap::insert of the copy
CpInsert(key, addr) ==
    /\ ~indexed
    /\ NumKeypoints(ranges) < MaxInserts
    /\ ranges' = cp_insert(ranges, key, addr)
    /\ inOrder' = (inOrder /\ lastKey <= key)
    /\ lastKey' = key
    /\ UNCHANGED <<index, function_ranges, indexed, q, mapFrame>>

\* lookup_address of the copy, with the range consulted and the search
\* position kept as history; the queries leave the translator as it is
CpLookupAddress(addr) ==
    /\ indexed
    /\ q = NoQuery
    /\ \E pos \in cp_positions(ranges, index, addr) :
          q' = [op |-> "cp_lookup_address", addr |-> addr, pos |-> pos,
                entry |-> index_at(index, addr),
                res |-> cp_lookup_address(ranges, index, addr, pos)]
    /\ UNCHANGED <<mapVars, mapFrame>>

\* translate_offset of the copy's transform translator, with the translated
\* base and the translations of base + offset kept as history
CpTranslateOffset(base, offset) ==
    /\ indexed
    /\ q = NoQuery
    /\ \E pb \in cp_positions(ranges, index, base),
          pa \in cp_positions(ranges, index, base + offset) :
          \* the same search gives the same position
          /\ offset = 0 => pa = pb
          /\ LET tb == cp_translate_address(ranges, index, base, pb)
                 ta == cp_translate_address(ranges, index, base + offset, pa)
             IN q' = [op |-> "cp_translate_offset", addr |-> base, offset |-> offset,
                      base |-> tb, addresses |-> ta,
                      res |-> IF tb.panic THEN [panic |-> TRUE]
                              ELSE IF ~cp_translate_base_address(tb.val).some
                              THEN [panic |-> FALSE, underflow |-> FALSE, val |-> <<>>]
                              ELSE IF ta.panic THEN [panic |-> TRUE]
                              ELSE [panic |-> FALSE] @@
                                   cp_offsets(cp_translate_base_address(tb.val).val, ta.val)]
    /\ UNCHANGED <<mapVars, mapFrame>>

CpNext ==
    \/ \E key \in TargetAddrs, addr \in OrigAddrs : CpInsert(key, addr)
    \/ CpNew
    \/ \E addr \in 0..(MaxOrig + 1) : CpLookupAddress(addr)
    \/ \E base \in OrigAddrs, offset \in 0..MaxOrig : CpTranslateOffset(base, offset)

CpSpec == MapInit /\ [][CpNext]_vars

\* C17: in the wdwarf-cp copy too, translate_offset(base, off) returns
\* exactly the values t - b for the translations t of base + off with
\* t >= b, where b is the translated base; translations with t < b are
\* dropped, the result is empty when base has no translation, and no
\* unsigned subtraction underflows.
C17_OffsetsFromBase ==
    (/\ q.op = "cp_translate_offset"
     /\ ~q.res.panic)
        => /\ ~q.res.underflow
           /\ q.res.val =
                IF q.base.val = <<>> THEN <<>>
                ELSE LET b == q.base.val[1].val
                         kept == SelectSeq(q.addresses.val, LAMBDA t : t.val >= b)
                     IN [i \in 1..Len(kept) |-> kept[i].val - b]

----------------------------------------------------------------------------
(* Properties of AddressMap::insert *)

\* The keypoint the latest insert added: the last keypoint of the last range.
InsertedKeypoint(rs) ==
    rs[Len(rs)].keypoints[Len(rs[Len(rs)].keypoints)]

\* An insert into a non-empty map of a keypoint whose original address is
\* smaller than the last-inserted original address of the open range.
InsertsSmallerOriginal ==
    /\ ranges # <<>>
    /\ ranges' # ranges
    /\ InsertedKeypoint(ranges')[1] < last_addr_of(ranges[Len(ranges)])

\* It starts a new range holding that keypoint and leaves the ranges before
\* the closed one as they are.
StartsNewRange ==
    /\ Len(ranges') = Len(ranges) + 1
    /\ ranges'[Len(ranges')] =
          [keypoints |-> <<InsertedKeypoint(ranges')>>, last |-> InsertedKeypoint(ranges')[2]]
    /\ \A i \in 1..(Len(ranges) - 1) : ranges'[i] = ranges[i]

\* C18 as stated: such an insert starts a new range and leaves the closed
\* range unchanged, its `last` target included.
C18_ClosedRangeUnchangedAsStated ==
    [][InsertsSmallerOriginal =>
          /\ StartsNewRange
          /\ ranges'[Len(ranges)] = ranges[Len(ranges)]]_vars

\* C18 amended: such an insert starts a new range, leaves the keypoints of
\* the closed range unchanged and sets the closed range's `last` to the
\* target of the inserted keypoint.
C18_ClosedRangeLast ==
    [][InsertsSmallerOriginal =>
          /\ StartsNewRange
          /\ ranges'[Len(ranges)].keypoints = ranges[Len(ranges)].keypoints
          /\ ranges'[Len(ranges)].last = InsertedKeypoint(ranges')[2]]_vars

\* A closed range whose `last` is no longer the target of its last
\* keypoint but the target of the keypoint that closed it.
C18_Witness ==
    /\ Len(ranges) = 2
    /\ Len(ranges[2].keypoints) = 1
    /\ ranges[1].last = ranges[2].keypoints[1][2]
    /\ ranges[1].last # ranges[1].keypoints[Len(ranges[1].keypoints)][2]


\* The range indices an index list holds.
ListedAt(idx, k) == {idx[k][i] : i \in 1..Len(idx[k])}

\* C19: for every key k of the index built by generate_index, the list at k
\* contains range index r exactly when k lies in the original-address span
\* of r.
C19_IndexListsCoveringRanges ==
    indexed =>
        \A k \in DOMAIN index : \A r \in 1..Len(ranges) :
            r \in ListedAt(index, k) <=> k \in Span(ranges[r])


\* The keypoints of the range a point lookup consulted.
ConsultedKeypoints == ranges[q.entry.ranges[1]].keypoints

\* C20: in the wdwarf-cp copy too, the point lookup of an original address
\* o inside one range (with sorted keypoints) never reads outside the
\* keypoint array and returns the target of a keypoint whose original is o
\* when there is one, otherwise the target of the first keypoint whose
\* original is greater than o, and the range's `last` target when there is
\* none.
C20_PointLookup ==
    (/\ q.op = "cp_lookup_address"
     /\ q.entry.found
     /\ NonDecreasing([i \in 1..Len(ConsultedKeypoints) |-> ConsultedKeypoints[i][1]]))
        => LET kps == ConsultedKeypoints
               hits == {i \in 1..Len(kps) : kps[i][1] = q.addr}
               greater == {i \in 1..Len(kps) : kps[i][1] > q.addr}
           IN /\ ~q.res.panic
              /\ q.res.val.some
              /\ IF hits # {} THEN \E i \in hits : q.res.val.val = kps[i][2]
                 ELSE IF greater # {} THEN q.res.val.val = kps[SetMin(greater)][2]
                 ELSE q.res.val.val = ranges[q.entry.ranges[1]].last

----------------------------------------------------------------------------
(* The intervals of lookup_range *)

\* the half-open target intervals a and b share no address
DisjointIntervals(a, b) == a[2] <= b[1] \/ b[2] <= a[1]

\* C21: for a map built by inserts in non-decreasing target order and any
\* start <= end, the intervals lookup_range(start, end) yields are non-empty
\* (begin < end), pairwise disjoint as half-open target intervals, and
\* yielded in increasing target order.
C21_LookupRangeIntervals ==
    (q.op = "translate_range" /\ inOrder) =>
        /\ \A i \in 1..Len(q.it) : q.it[i][1] < q.it[i][2]
        /\ \A i, j \in 1..Len(q.it) : i # j => DisjointIntervals(q.it[i], q.it[j])
        /\ \A i, j \in 1..Len(q.it) : i < j => q.it[i][2] <= q.it[j][1]

\* two intervals yielded, from two ranges of a map built in target order
C21_Witness ==
    /\ q.op = "translate_range"
    /\ inOrder
    /\ Len(ranges) >= 2
    /\ Len(q.it) = 2

----------------------------------------------------------------------------
(* lookup_function_range over maps with function ranges *)

\* The function-range lists handed to AddressMapIndexed::from: disjoint
\* target ranges <<begin, end>>, in any order.
FnRangeLists ==
    {<<>>, <<<<0, 1>>>>, <<<<1, 2>>>>, <<<<2, 3>>>>, <<<<0, 1>>, <<1, 3>>>>,
     <<<<2, 3>>, <<0, 1>>>>, <<<<1, 2>>, <<2, 3>>>>, <<<<2, 3>>, <<0, 2>>>>}

\* The slices of original addresses lookup_function_range is called with.
FnAddrs ==
    {<<a>> : a \in OrigAddrs} \cup {<<a, b>> : a \in OrigAddrs, b \in OrigAddrs}

\* AddressMapIndexed::from with the function ranges of the code section
FnFrom(frs) ==
    /\ ranges # <<>>
    /\ BuildIndex(frs)

\* AddressMapIndexed::lookup_function_range
FnLookupFunctionRange(addrs) ==
    /\ indexed
    /\ q = NoQuery
    /\ \E res \in lookup_function_range(ranges, index, function_ranges, addrs) :
          q' = [op |-> "lookup_function_range", addrs |-> addrs, res |-> res]
    /\ UNCHANGED <<mapVars, mapFrame>>

\* TranformAddressTranslator::translate_function_range
FnTranslateFunctionRange(start, len) ==
    /\ q = NoQuery
    /\ TranslateFunctionRange(start, len)

FnNext ==
    \/ \E key \in TargetAddrs, addr \in OrigAddrs : Insert(key, addr)
    \/ \E frs \in FnRangeLists : FnFrom(frs)
    \/ \E addrs \in FnAddrs : FnLookupFunctionRange(addrs)
    \/ \E start \in OrigAddrs, len \in 0..MaxOrig : FnTranslateFunctionRange(start, len)

FnSpec == MapInit /\ [][FnNext]_vars

\* The function range holding target t, if any (the function ranges are
\* disjoint).
FunctionOf(t) ==
    LET in == {i \in 1..Len(function_ranges) :
                 function_ranges[i][1] <= t /\ t < function_ranges[i][2]}
    IN IF in = {} THEN None ELSE Some(function_ranges[CHOOSE i \in in : TRUE])

\* q is a lookup of the single original address a, which is listed in the
\* index and is not the original of any keypoint of the range looked up
InexactLookup(a) ==
    /\ q.op = "lookup_function_range"
    /\ q.addrs = <<a>>
    /\ index_at(index, a).found
    /\ Len(index_at(index, a).ranges) = 1
    /\ ~\E k \in 1..Len(ranges[index_at(index, a).ranges[1]].keypoints) :
           ranges[index_at(index, a).ranges[1]].keypoints[k][1] = a

\* the keypoints of the range looked up for a, and the insertion position
LookedUp(a) == ranges[index_at(index, a).ranges[1]].keypoints
InsertionPos(a) == Cardinality({k \in 1..Len(LookedUp(a)) : LookedUp(a)[k][1] < a}) + 1
HasRight(a) == InsertionPos(a) <= Len(LookedUp(a))
HasLeft(a) == InsertionPos(a) > 1
RightFn(a) == FunctionOf(LookedUp(a)[InsertionPos(a)][2])
LeftFn(a) == FunctionOf(LookedUp(a)[InsertionPos(a) - 1][2])

\* C22 as stated: for an original address that is not the original of any
\* keypoint of the looked-up range, if the right-neighbour keypoint exists
\* and its target lies in a function range, that function range is returned
\* whether or not the left neighbour's target lies in a function range; the
\* left neighbour's function range is used only when there is no right
\* neighbour.
C22_RightPreferredAsStated ==
    \A a \in OrigAddrs :
        InexactLookup(a) =>
            /\ (HasRight(a) /\ RightFn(a).some) => q.res = RightFn(a)
            /\ (HasRight(a) /\ ~RightFn(a).some) => q.res = None
            /\ ~HasRight(a) => q.res = LeftFn(a)

\* C22 amended: when there is no left neighbour the right neighbour's
\* function range is returned; when there is a left neighbour whose target
\* lies in no function range nothing is returned from this range; otherwise
\* the right neighbour's function range is returned when a right neighbour
\* exists (nothing if its target lies in no function range) and the left
\* neighbour's when there is none.
C22_RightPreferred ==
    \A a \in OrigAddrs :
        InexactLookup(a) =>
            /\ ~HasLeft(a) => q.res = RightFn(a)
            /\ (HasLeft(a) /\ ~LeftFn(a).some) => q.res = None
            /\ (HasLeft(a) /\ LeftFn(a).some /\ HasRight(a)) => q.res = RightFn(a)
            /\ (HasLeft(a) /\ LeftFn(a).some /\ ~HasRight(a)) => q.res = LeftFn(a)

\* an address between two keypoints whose right neighbour lies in a function
\* range and whose left neighbour lies in none: nothing is returned
C22_Witness ==
    \E a \in OrigAddrs :
        /\ InexactLookup(a)
        /\ HasLeft(a) /\ HasRight(a)
        /\ ~LeftFn(a).some /\ RightFn(a).some
        /\ q.res = None


\* the outcomes of looking the single address a up among the function ranges
HitsOf(a) == lookup_function_range(ranges, index, function_ranges, <<a>>)

\* C23: lookup_function_range(addrs) returns Some whenever one of the
\* supplied original addresses has a function-range hit, and the range
\* returned is the hit of the first such address in the supplied order; an
\* earlier address without an index entry or without a hit does not keep
\* later addresses from being probed.
C23_FirstHitReturned ==
    q.op = "lookup_function_range" =>
        /\ (\E i \in 1..Len(q.addrs) : None \notin HitsOf(q.addrs[i])) => q.res.some
        /\ q.res.some =>
             \E i \in 1..Len(q.addrs) :
                /\ q.res \in HitsOf(q.addrs[i])
                /\ \A j \in 1..(i - 1) : None \in HitsOf(q.addrs[j])

----------------------------------------------------------------------------
(* build_new_dwarf step by step: build_dependencies, get_reachable, and     *)
(* from_dwarf under the reachable set                                        *)

\* the dependencies are built and the rewrite has not run yet
DepsBuilt == [run |-> FALSE, stage |-> "deps"]

\* let deps = build_dependencies(&dwarf, &at)
BuildDependencies ==
    /\ out = NotRun
    /\ dies # <<>>
    /\ LET deps == build_dependencies(dies, filterZero)
       IN /\ edges' = deps.edges
          /\ roots' = deps.roots
    /\ out' = DepsBuilt
    /\ UNCHANGED <<reach, dies, mapVars, q, filterZero, lineVars, rngVars>>

\* let reachable = deps.get_reachable(), the hash sets visited in any order
DepGetReachable(ord) ==
    /\ out = DepsBuilt
    /\ reach = NotRun
    /\ reach' = [run |-> TRUE, set |-> get_reachable(edges, roots, ord)]
    /\ UNCHANGED <<edges, roots, dies, out, mapVars, q, filterZero, lineVars, rngVars>>

\* from_dwarf(&dwarf, &at, &|uo| reachable.contains(&uo))
DepFromDwarf ==
    /\ out = DepsBuilt
    /\ reach.run
    /\ out' = Rewritten(reach.set, TRUE)
    /\ UNCHANGED <<dies, dieFrame>>

DepNext ==
    \/ ReadDie
    \/ BuildDependencies
    \/ \E ord \in DieOrders : DepGetReachable(ord)
    \/ DepFromDwarf

DepSpec == DieInit /\ [][DepNext]_vars

\* entry d bears a low_pc whose address has at least one translation
LowPcWithTranslation(d) ==
    \E k \in 1..Len(dies[d].attrs) :
        /\ dies[d].attrs[k].name = "DW_AT_low_pc"
        /\ dies[d].attrs[k].value.form = "Addr"
        /\ ~(filterZero /\ dies[d].attrs[k].value.val = 0)

\* C24: build_dependencies marks a non-root DIE as a retention root if and
\* only if its tag is subprogram and either it bears a low_pc whose address
\* has at least one translation or it bears a DW_AT_ranges attribute; every
\* subprogram DIE bearing DW_AT_ranges is a root whatever its other
\* attributes are.
C24_RetentionRoots ==
    out = DepsBuilt =>
        \A d \in 1..Len(dies) :
            dies[d].depth > 0 =>
                (d \in roots <=>
                    /\ dies[d].tag = "DW_TAG_subprogram"
                    /\ \/ LowPcWithTranslation(d)
                       \/ \E k \in 1..Len(dies[d].attrs) :
                             dies[d].attrs[k].name = "DW_AT_ranges")


\* C25: after build_dependencies over any DIE forest the reachable set is
\* closed under parents: the parent of every reachable DIE that is not a
\* unit root is reachable, so every ancestor of a kept DIE up to its unit
\* root is kept.
C25_ReachableClosedUnderParents ==
    (out = DepsBuilt /\ reach.run) =>
        \A d \in reach.set :
            /\ dies[d].depth > 0 => parent_of(dies, d) \in reach.set
            /\ Ancestors(dies, d) \subseteq reach.set

\* a retention root two levels below its unit root, under a parent that is
\* no root itself, with an unreachable entry beside it
C25_Witness ==
    /\ out = DepsBuilt
    /\ reach.run
    /\ \E d \in reach.set :
          /\ dies[d].depth = 2
          /\ d \in roots
          /\ parent_of(dies, d) \notin roots
    /\ reach.set # 1..Len(dies)


\* C28: in the pipeline, when every reference attribute of the input points
\* at an existing DIE, the second pass never fails with
\* InvalidDebugInfoOffset: every DIE referenced by an emitted DIE is
\* reachable, all of its ancestors are reachable, and it is emitted.
C28_PipelineResolvesReferences ==
    (out.run /\ out.pipeline /\ InputWellFormed) =>
        /\ out.res # Err("InvalidDebugInfoOffset")
        /\ out.res.ok
        /\ \A i \in 1..Len(dies) :
              InOutput(i) =>
                  \A t \in References(dies, i) :
                      /\ t \in reach.set
                      /\ Ancestors(dies, t) \subseteq reach.set
                      /\ InOutput(t)

\* the pipeline emitted an entry that refers to an entry of another
\* subtree, which is no retention root
C28_Witness ==
    /\ out.run
    /\ out.pipeline
    /\ InputWellFormed
    /\ \E i \in 1..Len(dies) :
          /\ InOutput(i)
          /\ \E k \in CopiedRefs(dies, i) :
                LET t == dies[i].attrs[k].value.val
                IN /\ t \notin roots
                   /\ t \notin Ancestors(dies, i)
                   /\ i \notin Ancestors(dies, t)
                   /\ InOutput(t)

----------------------------------------------------------------------------
(* Sequences of the line-program rewrite *)

\* C26: a SetAddress instruction that arrives inside a sequence, i.e. after
\* at least one row has been accumulated since the last end_sequence (or
\* since the start), makes the rewrite fail with UnsupportedLineInstruction;
\* a SetAddress is accepted only outside a sequence.
C26_SetAddressInsideSequence ==
    [][(/\ temp_line_sequence.rows # <<>>
        /\ \E val \in SetAddressValues : SetAddress(val))
          => lstatus' = "UnsupportedLineInstruction"]_vars

\* the translations the translator has for the pending base address, as the
\* end of the sequence finds them
BaseTranslations(t) ==
    IF temp_line_sequence.base_address.some
    THEN {t[temp_line_sequence.base_address.val][i] :
             i \in 1..Len(t[temp_line_sequence.base_address.val])}
    ELSE {}

\* the pending sequence has no base, or its base has no translation or is
\* translated to Constant(0)
BaseFails(t) == BaseTranslations(t) = {} \/ SetMin(BaseTranslations(t)) = 0

\* C27: when an input line sequence ends and its SetAddress base has no
\* translation or translates to Constant(0) (or no SetAddress was seen), no
\* output sequence is begun and the output is left as it was; otherwise
\* exactly one output sequence is begun at the translated base, holding rows
\* of the pending sequence only. In both cases the pending buffer is empty
\* and the pending base unset afterwards.
C27_SequenceEmittedOrDropped ==
    [][EndSequence =>
          /\ BaseFails(tab') => program' = program
          /\ ~BaseFails(tab') =>
                /\ Len(program'.sequences) = Len(program.sequences) + 1
                /\ SubSeq(program'.sequences, 1, Len(program.sequences)) = program.sequences
                /\ LET new == program'.sequences[Len(program'.sequences)]
                   IN /\ new.base = Constant(SetMin(BaseTranslations(tab')))
                      /\ \A i \in 1..Len(new.rows) :
                            \E j \in 1..Len(temp_line_sequence.rows) :
                                new.rows[i].line = temp_line_sequence.rows[j].line
          /\ temp_line_sequence'.rows = <<>>
          /\ temp_line_sequence'.base_address = None]_vars

\* a sequence of one row has ended and was dropped, its base being without a
\* translation or translated to Constant(0), and nothing was emitted
C27_Witness ==
    /\ lstatus = "running"
    /\ program.sequences = <<>>
    /\ \E a \in DOMAIN tab : tab[a] # <<>> /\ \A i \in 1..Len(tab[a]) : tab[a][i] = 0
    /\ Cardinality(DOMAIN tab) >= 2
    /\ lcount = 3
    /\ temp_line_sequence = NewTempLineSequence

----------------------------------------------------------------------------
(* The ranges the index lists *)

\* C30: every range of the AddressMap is listed under at least one key of
\* the index built by generate_index, including when two ranges start at the
\* same original address; no range becomes unreachable by lookup after
\* indexing.
C30_EveryRangeListed ==
    indexed =>
        \A r \in 1..Len(ranges) : \E k \in DOMAIN index : r \in ListedAt(index, k)

----------------------------------------------------------------------------
(* get_reachable step by step: one step per loop iteration. While a call    *)
(* runs, reach holds its locals: the reachable set, the work queue, the     *)
(* roots still to visit (todo), the successors still to scan (deps) and, as *)
(* history, the offsets pushed so far.                                      *)

\* a variant of queue_pop that leaves the popped offset on the queue
queue_peek(queue) == [i |-> queue[Len(queue)], rest |-> queue]

\* Vec::pop on a non-empty queue: the last element and the rest
queue_pop(queue) == [i |-> queue[Len(queue)], rest |-> SubSeq(queue, 1, Len(queue) - 1)]

InCall == ~reach.run /\ reach # NotRun

\* the graph is borrowed while get_reachable runs: add_edge and add_root are
\* called before or after it
GcAddEdge(a, b) == ~InCall /\ AddEdge(a, b)
GcAddRoot(r) == ~InCall /\ AddRoot(r)

\* let mut reachable = self.roots.clone(); let mut queue = Vec::new();
GcCall(ord) ==
    /\ reach = NotRun
    /\ reach' = [run |-> FALSE, ord |-> ord, reachable |-> roots, queue |-> <<>>,
                 todo |-> InOrder(roots, ord), deps |-> <<>>, pushes |-> <<>>]
    /\ UNCHANGED <<edges, roots, gcFrame>>

\* for i in self.roots.iter() { if let Some(deps) = self.edges.get(i) {
GcNextRoot ==
    /\ InCall
    /\ reach.deps = <<>>
    /\ reach.todo # <<>>
    /\ reach' = [reach EXCEPT !.deps = deps_of(edges, Head(reach.todo), reach.ord),
                              !.todo = Tail(reach.todo)]
    /\ UNCHANGED <<edges, roots, gcFrame>>

\* one iteration of `for j in deps`
GcScanDep ==
    /\ InCall
    /\ reach.deps # <<>>
    /\ LET j == Head(reach.deps)
           st == scan_deps(<<j>>, [reachable |-> reach.reachable, queue |-> reach.queue])
       IN reach' = [reach EXCEPT !.deps = Tail(reach.deps),
                                 !.reachable = st.reachable,
                                 !.queue = st.queue,
                                 !.pushes = IF st.queue # reach.queue THEN Append(@, j) ELSE @]
    /\ UNCHANGED <<edges, roots, gcFrame>>

\* while let Some(i) = queue.pop() { if let Some(deps) = self.edges.get(&i) {
GcPop ==
    /\ InCall
    /\ reach.deps = <<>>
    /\ reach.todo = <<>>
    /\ reach.queue # <<>>
    /\ LET popped == queue_pop(reach.queue)
       IN reach' = [reach EXCEPT !.queue = popped.rest,
                                 !.deps = deps_of(edges, popped.i, reach.ord)]
    /\ UNCHANGED <<edges, roots, gcFrame>>

\* the queue is empty: the call returns reachable
GcReturn ==
    /\ InCall
    /\ reach.deps = <<>>
    /\ reach.todo = <<>>
    /\ reach.queue = <<>>
    /\ reach' = [run |-> TRUE, set |-> reach.reachable]
    /\ UNCHANGED <<edges, roots, gcFrame>>

GcStep == GcNextRoot \/ GcScanDep \/ GcPop \/ GcReturn

GcStepNext ==
    \/ \E a, b \in Offsets : GcAddEdge(a, b)
    \/ \E r \in Offsets : GcAddRoot(r)
    \/ \E ord \in Orders : GcCall(ord)
    \/ GcNextRoot
    \/ GcScanDep
    \/ GcPop
    \/ GcReturn

\* A call, once made, runs on: the code of get_reachable is sequential and
\* nothing else can stop it.
GcLiveSpec == GcInit /\ [][GcStepNext]_vars /\ WF_vars(GcStep)

\* no offset occurs twice in s
NoRepeats(s) == \A i, j \in 1..Len(s) : i # j => s[i] # s[j]

\* C29: get_reachable() terminates on every finite graph, graphs with cycles
\* included: every call returns, each offset is pushed on the work queue at
\* most once, and the call leaves the edges and roots of the graph unchanged.
C29_GetReachableTerminates ==
    /\ [](InCall => NoRepeats(reach.pushes))
    /\ [][InCall => (edges' = edges /\ roots' = roots)]_vars
    /\ (InCall ~> reach.run)

\* a call about to return on a graph with a cycle, two offsets pushed
C29_Witness ==
    /\ InCall
    /\ reach.deps = <<>> /\ reach.todo = <<>> /\ reach.queue = <<>>
    /\ Len(reach.pushes) = 2
    /\ \E a, b \in Offsets :
          /\ a # b
          /\ a \in DOMAIN edges /\ b \in edges[a]
          /\ b \in DOMAIN edges /\ a \in edges[b]

====
